---- MODULE Spec2Model ----
(***************************************************************************)
(* Checkout tools of the MCP server (src/mcp-server/mcpserver.py):         *)
(* `checkout` and `checkout_cart`, each a sequential chain of awaited      *)
(* remote calls (ViewCart, CreateMandate, CreateIntent, Authorize,         *)
(* Execute, ClearCart), running against a remote cart store that other     *)
(* tool invocations (add_to_cart, update_cart_item, remove_from_cart)      *)
(* mutate between the awaits; the cart tools themselves (view_cart,         *)
(* add_to_cart, update_cart_item, remove_from_cart) with the resolution of *)
(* product names to ids (resolve_product_id); and the dispatch of a tool   *)
(* call by the chat client (src/internal/llm/openrouter_client.py,         *)
(* _execute_tool_call).                                                    *)
(***************************************************************************)
EXTENDS Integers, Sequences, FiniteSets, TLC

\* ------------------------------------------------------------------------
\* Bounds of the model
\* ------------------------------------------------------------------------
\* largest quantity of one product the cart store holds in the model
MaxQty == 2

\* ------------------------------------------------------------------------
\* Python values
\* ------------------------------------------------------------------------
\* a key that is not in a dict
Absent == "<absent>"
\* Python None (JSON null)
PyNone == "None"
PyTrue == "True"
PyFalse == "False"

\* Python truthiness of the values the model uses (None, "", False are falsy)
Truthy(v) == v \notin {PyNone, "", PyFalse}

\* dict.get(key, default): the default only when the key is not in the dict
Get(d, key, default) == IF d[key] = Absent THEN default ELSE d[key]

\* the operands are taken in the other order
PyOr_second_first(a, b) == IF Truthy(b) THEN b ELSE a

\* a or b
PyOr(a, b) == IF Truthy(a) THEN a ELSE b

\* ------------------------------------------------------------------------
\* Floating-point: total_amount * 1.1 in IEEE-754 binary64
\* A double is [m |-> <<a, b, c>>, e |-> e], value (a*2^36 + b*2^18 + c) * 2^e
\* with 2^52 <= a*2^36 + b*2^18 + c < 2^53 (a has 17 bits, b and c 18 bits),
\* or DblZero.
\* ------------------------------------------------------------------------
RECURSIVE Pow2(_)
Pow2(n) == IF n = 0 THEN 1 ELSE 2 * Pow2(n - 1)

Limb == Pow2(18)

RECURSIVE BitLen(_)
BitLen(n) == IF n = 0 THEN 0 ELSE 1 + BitLen(n \div 2)

DblZero == [m |-> <<0, 0, 0>>, e |-> 0]

\* the double nearest to 1.1: 0x1.199999999999ap+0
Dbl1_1 == [m |-> <<72089, 157286, 104858>>, e |-> -52]

\* t * d for a whole number 0 <= t < 4096 and a double d, rounded once to
\* nearest, ties to even
DblMulInt(t, d) ==
    IF t = 0 \/ d = DblZero THEN DblZero
    ELSE LET pc == d.m[3] * t
             pb == d.m[2] * t + (pc \div Limb)
             pa == d.m[1] * t + (pb \div Limb)
             c0 == pc % Limb
             b0 == pb % Limb
             s  == BitLen(pa) - 17
             p  == Pow2(s)
             up == Limb \div p
             rem == c0 % p
             c1 == (c0 \div p) + (b0 % p) * up
             b1 == (b0 \div p) + (pa % p) * up
             a1 == pa \div p
             roundUp == /\ s > 0
                        /\ \/ 2 * rem > p
                           \/ 2 * rem = p /\ c1 % 2 = 1
             c2 == IF roundUp THEN c1 + 1 ELSE c1
             b2 == b1 + (c2 \div Limb)
             a2 == a1 + (b2 \div Limb)
         IN  IF a2 = 131072
             THEN [m |-> <<65536, 0, 0>>, e |-> d.e + s + 1]
             ELSE [m |-> <<a2, b2 % Limb, c2 % Limb>>, e |-> d.e + s]


\* amount_limit of the mandate: total_amount * 1.1
AmountLimit(total_amount) == DblMulInt(total_amount, Dbl1_1)

\* ------------------------------------------------------------------------
\* The remote cart store (cart service of the Restate runtime)
\* ------------------------------------------------------------------------
Customers == {"c1"}
Products == {"i_001", "i_002"}
ProductOrder == <<"i_001", "i_002">>
UnitPrice == [p \in Products |-> IF p = "i_001" THEN 10 ELSE 5]
Quantities == 0..MaxQty
EmptyCart == [p \in Products |-> 0]

\* the cart_state the cart service reports for a cart
CartItems(c) ==
    LET Item(i) == [product_id |-> ProductOrder[i], quantity |-> c[ProductOrder[i]]]
        InCart(it) == it.quantity > 0
    IN  SelectSeq([i \in 1..Len(ProductOrder) |-> Item(i)], InCart)

CartTotal(c) == c["i_001"] * UnitPrice["i_001"] + c["i_002"] * UnitPrice["i_002"]

\* A dict-valued field of a response: json says whether the key is missing,
\* null or an object; the other fields are those of the object.
CartState(c) ==
    [json |-> "object", merchant_id |-> IF CartItems(c) = <<>> THEN Absent ELSE "m_001",
     items |-> CartItems(c), total_amount |-> CartTotal(c)]
\* {} , the default of cart_result.get("cart_state", {}): no items, no total
EmptyDict == [json |-> "object", merchant_id |-> Absent, items |-> <<>>, total_amount |-> 0]
AbsentCartState == [EmptyDict EXCEPT !.json = "absent"]
NullCartState == [EmptyDict EXCEPT !.json = "null"]

\* dict.get(key, default) for a dict-valued key
GetDict(d, key, default) == IF d[key].json = "absent" THEN default ELSE d[key]

\* ------------------------------------------------------------------------
\* Responses of the remote services, as make_restate_request and
\* make_ap2_request hand them to the tools
\* ------------------------------------------------------------------------
\* What one HTTP exchange comes to: the request fails to connect or times out
\* ("connect"), the status is not 2xx ("status"), the 2xx body is not JSON
\* ("decode"), or the body is decoded ("none").  body is the decoded JSON:
\* kind "object" with the keys of the body (Absent for a key the body lacks),
\* or kind "non_object" for JSON that is not an object; for a fault it is the
\* body without any key.
Faults == {"connect", "status", "decode"}

Exchanges(bodies, blank) ==
    {[fault |-> f, body |-> blank] : f \in Faults} \cup
    {[fault |-> "none", body |-> b] : b \in bodies}

\* str(exc)
Cause(fault) ==
    CASE fault = "connect" -> "All connection attempts failed"
      [] fault = "status" -> "Server error '503 Service Unavailable'"
      [] fault = "decode" -> "Expecting value: line 1 column 1 (char 0)"

\* only httpx.HTTPError is caught: a body that is not JSON raises
make_restate_request_http_errors_only(x) ==
    IF x.fault \in {"connect", "status"}
    THEN [x.body EXCEPT !.error = "HTTP error: " \o Cause(x.fault)]
    ELSE IF x.fault = "decode"
    THEN [x.body EXCEPT !.kind = "raised"]
    ELSE x.body

\* the dict make_restate_request returns for an exchange
make_restate_request(x) ==
    IF x.fault \in {"connect", "status"}
    THEN [x.body EXCEPT !.error = "HTTP error: " \o Cause(x.fault)]
    ELSE IF x.fault = "decode"
    THEN [x.body EXCEPT !.error = "Request failed: " \o Cause(x.fault)]
    ELSE x.body

\* the dict make_ap2_request returns for an exchange
make_ap2_request(x) ==
    IF x.fault = "status"
    THEN [x.body EXCEPT !.error = "AP2 HTTP error 503: " \o Cause(x.fault)]
    ELSE IF x.fault = "connect"
    THEN [x.body EXCEPT !.error = "AP2 request error: " \o Cause(x.fault)]
    ELSE IF x.fault = "decode"
    THEN [x.body EXCEPT !.error = "AP2 request failed: " \o Cause(x.fault)]
    ELSE x.body

\* the error texts of the two helpers
Errors ==
    {"HTTP error: " \o Cause("connect"), "HTTP error: " \o Cause("status"),
     "Request failed: " \o Cause("decode"),
     "AP2 HTTP error 503: " \o Cause("status"), "AP2 request error: " \o Cause("connect"),
     "AP2 request failed: " \o Cause("decode")}

\* the check looks for a key the helpers never set
HasError_wrong_key(result) == FALSE

\* "error" in result
HasError(result) == result.error # Absent

ViewCartExchanges(c) ==
    Exchanges({[kind |-> "non_object", error |-> Absent, cart_state |-> AbsentCartState]} \cup
              {[kind |-> "object", error |-> Absent, cart_state |-> cs] :
                  cs \in {AbsentCartState, NullCartState, CartState(c)}},
              [kind |-> "object", error |-> Absent, cart_state |-> AbsentCartState])
ViewCartResults(c) == {make_restate_request(x) : x \in ViewCartExchanges(c)}

MandateIds == {Absent, "mdt_1"}
MandateExchanges ==
    Exchanges({[kind |-> "non_object", error |-> Absent, mandate_id |-> Absent]} \cup
              {[kind |-> "object", error |-> Absent, mandate_id |-> m] : m \in MandateIds},
              [kind |-> "object", error |-> Absent, mandate_id |-> Absent])
MandateResults == {make_ap2_request(x) : x \in MandateExchanges}

IntentIds == {Absent, "", "pi_1"}
IntentExchanges ==
    Exchanges({[kind |-> "non_object", error |-> Absent, intent_id |-> Absent]} \cup
              {[kind |-> "object", error |-> Absent, intent_id |-> i] : i \in IntentIds},
              [kind |-> "object", error |-> Absent, intent_id |-> Absent])
IntentResults == {make_ap2_request(x) : x \in IntentExchanges}

AuthorizationIds == {Absent, "auth_1"}
Messages == {Absent, "insufficient limit"}
AuthorizeExchanges ==
    Exchanges({[kind |-> "non_object", error |-> Absent, authorized |-> Absent,
                authorization_id |-> Absent, message |-> Absent]} \cup
              {[kind |-> "object", error |-> Absent, authorized |-> a,
                authorization_id |-> i, message |-> m] :
                  a \in {Absent, PyFalse, PyTrue}, i \in AuthorizationIds, m \in Messages},
              [kind |-> "object", error |-> Absent, authorized |-> Absent,
               authorization_id |-> Absent, message |-> Absent])
AuthorizeResults == {make_ap2_request(x) : x \in AuthorizeExchanges}

InvoiceUrls == {Absent, "", "https://pay.example/abc"}
InvoiceLinks == {Absent, "https://pay.example/link"}
Payloads ==
    {[json |-> "object", invoice_url |-> u, invoiceLink |-> l] :
        u \in InvoiceUrls, l \in InvoiceLinks}
AbsentPayload == [json |-> "absent", invoice_url |-> Absent, invoiceLink |-> Absent]
NullPayload == [json |-> "null", invoice_url |-> Absent, invoiceLink |-> Absent]
\* the body of Execute: the payload flat at the top level, or under "result"
ExecuteExchanges ==
    Exchanges({[kind |-> "non_object", error |-> Absent, result |-> AbsentPayload,
                invoice_url |-> Absent, invoiceLink |-> Absent]} \cup
              {[kind |-> "object", error |-> Absent, result |-> AbsentPayload,
                invoice_url |-> p.invoice_url, invoiceLink |-> p.invoiceLink] : p \in Payloads} \cup
              {[kind |-> "object", error |-> Absent, result |-> p,
                invoice_url |-> Absent, invoiceLink |-> Absent] : p \in Payloads \cup {NullPayload}},
              [kind |-> "object", error |-> Absent, result |-> AbsentPayload,
               invoice_url |-> Absent, invoiceLink |-> Absent])
ExecuteResults == {make_ap2_request(x) : x \in ExecuteExchanges}

\* the body of Execute itself taken as the payload
AsPayload(execute_result) ==
    [json |-> "object", invoice_url |-> execute_result.invoice_url,
     invoiceLink |-> execute_result.invoiceLink]

ClearCartExchanges ==
    Exchanges({[kind |-> "non_object", error |-> Absent, success |-> Absent],
               [kind |-> "object", error |-> Absent, success |-> PyTrue]},
              [kind |-> "object", error |-> Absent, success |-> Absent])
ClearCartResults == {make_restate_request(x) : x \in ClearCartExchanges}

\* ------------------------------------------------------------------------
\* Strings (str.lower, str.startswith, the in operator)
\* ------------------------------------------------------------------------
Uppercase == "ABCDEFGHIJKLMNOPQRSTUVWXYZ"
Lowercase == "abcdefghijklmnopqrstuvwxyz"

LowerChar(ch) ==
    IF \E i \in 1..Len(Uppercase) : SubSeq(Uppercase, i, i) = ch
    THEN LET i == CHOOSE i \in 1..Len(Uppercase) : SubSeq(Uppercase, i, i) = ch
         IN  SubSeq(Lowercase, i, i)
    ELSE ch

RECURSIVE lower(_)
lower(s) ==
    IF Len(s) = 0 THEN "" ELSE LowerChar(SubSeq(s, 1, 1)) \o lower(SubSeq(s, 2, Len(s)))

startswith(s, prefix) == Len(s) >= Len(prefix) /\ SubSeq(s, 1, Len(prefix)) = prefix

RECURSIVE contains(_, _)
contains(s, ch) ==
    Len(s) > 0 /\ (SubSeq(s, 1, 1) = ch \/ contains(SubSeq(s, 2, Len(s)), ch))

\* ------------------------------------------------------------------------
\* resolve_product_id: a product reference is an id or a display name
\* ------------------------------------------------------------------------
Merchants == {"m_001"}

\* the references a caller passes: ids, names in several spellings, a name
\* the catalog does not hold, the empty string, null
References == {"i_001", "b_7", "Apple", "APPLE", "Pear", "", PyNone}

IdPrefixes == {"i_", "f_", "b_"}

\* the test that makes a reference an id
LooksLikeId_two_prefixes(ref) ==
    (\E prefix \in {"i_", "f_"} : startswith(ref, prefix)) /\ contains(ref, "_")
LooksLikeId(ref) == (\E prefix \in IdPrefixes : startswith(ref, prefix)) /\ contains(ref, "_")

\* the catalogs ListItems answers with, in the order the merchant service
\* lists the items
Catalogs ==
    { << [itemId |-> "i_002", name |-> "apple"], [itemId |-> "i_001", name |-> "Apple"] >>,
      << [itemId |-> Absent, name |-> "Apple"], [itemId |-> "i_001", name |-> "Apple"] >>,
      << [itemId |-> "i_002", name |-> Absent], [itemId |-> "i_001", name |-> "Pear"] >>,
      << [itemId |-> "i_001", name |-> PyNone] >>,
      << [itemId |-> PyNone, name |-> "Apple"] >> }

NoItemsBody == [kind |-> "object", error |-> Absent, items_json |-> "absent", items |-> <<>>]

ListItemsBodies ==
    {[NoItemsBody EXCEPT !.items_json = "list", !.items = catalog] : catalog \in Catalogs}
    \cup {NoItemsBody, [NoItemsBody EXCEPT !.items_json = "null"],
          [NoItemsBody EXCEPT !.kind = "non_object"]}

ListItemsExchanges == Exchanges(ListItemsBodies, NoItemsBody)

list_items_data(merchant_id) ==
    [op |-> "ListItems", merchant_id |-> merchant_id, page_size |-> 100, page_token |-> ""]

Returned(value) == [kind |-> "returned", value |-> value]
RaisedIn(what) == [kind |-> "raised", value |-> what]

\* the names are compared as they are spelled
NameMatches_case_sensitive(item, ref) == Get(item, "name", "") = ref

\* item.get("name", "").lower() == product_name_or_id.lower()
NameMatches(item, ref) == lower(Get(item, "name", "")) = lower(ref)

\* the loop over the items: the first item whose name equals the reference
RECURSIVE ByName(_, _, _)
ByName(items, ref, i) ==
    IF i > Len(items) THEN Returned(ref)
    ELSE IF items[i].name = PyNone THEN RaisedIn("AttributeError: NoneType has no lower")
    ELSE IF NameMatches(items[i], ref)
         THEN Returned(Get(items[i], "itemId", ref))
    ELSE ByName(items, ref, i + 1)

\* does the call reach its await of ListItems
resolve_product_id_requests(ref) == ref # PyNone /\ ~LooksLikeId(ref)

\* a failed fetch of the catalog ends the call with an exception
resolve_product_id_fetch_error_raises(merchant_id, ref, http) ==
    IF ref = PyNone THEN RaisedIn("AttributeError: NoneType has no startswith")
    ELSE IF LooksLikeId(ref) THEN Returned(ref)
    ELSE LET result == make_restate_request(http) IN
         IF result.kind = "non_object" THEN RaisedIn("result is not a dict")
         ELSE IF HasError(result) THEN RaisedIn(result.error)
         ELSE IF result.items_json = "null" THEN RaisedIn("TypeError: len of None")
         ELSE ByName(result.items, ref, 1)

\* what the call returns, http being the exchange its ListItems request gets
resolve_product_id(merchant_id, ref, http) ==
    IF ref = PyNone THEN RaisedIn("AttributeError: NoneType has no startswith")
    ELSE IF LooksLikeId(ref) THEN Returned(ref)
    ELSE LET result == make_restate_request(http) IN
         IF result.kind = "non_object" THEN RaisedIn("result is not a dict")
         ELSE IF HasError(result) THEN Returned(ref)
         ELSE IF result.items_json = "null" THEN RaisedIn("TypeError: len of None")
         ELSE ByName(result.items, ref, 1)

\* ------------------------------------------------------------------------
\* Tool calls, as the chat client receives them from the model
\* ------------------------------------------------------------------------
\* the tools of the server that take part in the cart and checkout flows
Handlers ==
    {"checkout", "checkout_cart", "view_cart", "add_to_cart", "update_cart_item",
     "remove_from_cart"}

\* the parameters of a tool; none of them has a default
Parameters(name) ==
    CASE name \in {"checkout", "checkout_cart", "view_cart"} -> {"customer_id"}
      [] name = "add_to_cart" -> {"customer_id", "merchant_id", "items"}
      [] name = "update_cart_item" -> {"customer_id", "product_id", "quantity"}
      [] name = "remove_from_cart" -> {"customer_id", "product_ids"}

\* an item of add_to_cart; Absent is an item without the key product_id
Items == {[product_id |-> ref] : ref \in {"i_001", "Apple", "Pear", Absent, PyNone}}
ItemLists == {<<>>} \cup {<<i>> : i \in Items} \cup {<<i, j>> : i \in Items, j \in Items}

ProductIdLists == {<<>>, <<"i_001">>, <<"Apple">>, <<"i_002", "i_001">>}

\* the decoded arguments: keys are the keys of the JSON object
NoArguments ==
    [keys |-> {}, customer_id |-> Absent, merchant_id |-> Absent, items |-> <<>>,
     product_id |-> Absent, product_ids |-> <<>>, quantity |-> 0]

\* the arguments without one of their keys
Drop(arguments, key) ==
    [arguments EXCEPT !.keys = @ \ {key}, ![key] = NoArguments[key]]

AllArguments(name) ==
    CASE name \in {"checkout", "checkout_cart", "view_cart"} ->
            {[NoArguments EXCEPT !.keys = Parameters(name), !.customer_id = c] :
                c \in Customers \cup {""}}
      [] name = "add_to_cart" ->
            {[NoArguments EXCEPT !.keys = Parameters(name), !.customer_id = c,
                                 !.merchant_id = m, !.items = l] :
                c \in Customers \cup {""}, m \in Merchants \cup {""}, l \in ItemLists}
      [] name = "update_cart_item" ->
            {[NoArguments EXCEPT !.keys = Parameters(name), !.customer_id = c,
                                 !.product_id = p, !.quantity = q] :
                c \in Customers \cup {""}, p \in References, q \in Quantities}
      [] name = "remove_from_cart" ->
            {[NoArguments EXCEPT !.keys = Parameters(name), !.customer_id = c,
                                 !.product_ids = l] :
                c \in Customers \cup {""}, l \in ProductIdLists}

ArgumentsOf(name) ==
    AllArguments(name)
    \cup {Drop(a, key) : a \in AllArguments(name), key \in Parameters(name)}

\* args_json: the text of the arguments is a JSON object ("object"), some
\* other JSON value ("non_object"), not JSON ("invalid"), or empty ("empty")
ToolCalls ==
    UNION {{[name |-> n, args_json |-> "object", arguments |-> a] : a \in ArgumentsOf(n)} :
              n \in Handlers}
    \cup {[name |-> n, args_json |-> j, arguments |-> NoArguments] :
              n \in Handlers \cup {"unknown_tool"}, j \in {"invalid", "non_object", "empty"}}
    \cup {[name |-> "unknown_tool", args_json |-> "object", arguments |-> a] :
              a \in AllArguments("view_cart")}

NoToolCall == [name |-> "", args_json |-> "empty", arguments |-> NoArguments]

\* ------------------------------------------------------------------------
\* State
\* ------------------------------------------------------------------------
Runs == {"r1"}
Tools == {"checkout", "checkout_cart"}

VARIABLES
    cart,               \* the cart store: customer -> product -> quantity
    tool,               \* run -> the tool that was invoked
    pc,                 \* run -> the await the run is suspended at
    customer_id,        \* run -> argument of the tool
    total_amount,       \* run -> local of the tool
    mandate_id,         \* run -> local of the tool
    intent_id,          \* run -> local of the tool
    authorization_id,   \* run -> local of the tool
    invoice_url,        \* run -> local (invoice_url / invoice_link)
    outcome,            \* run -> what the tool returned
    calls,              \* run -> the remote requests issued, with their results
    tool_call,          \* run -> the tool call the client was handed
    merchant_id,        \* run -> argument (add_to_cart) or local (update_cart_item)
    resolved_items,     \* run -> local of add_to_cart
    resolved_product_id, \* run -> local of update_cart_item
    resolves,           \* run -> the calls of resolve_product_id, with their results
    messages,           \* the message history of the chat client
    turn,               \* where the chat turn of the client stands
    pending             \* position of the next tool call of the last assistant message

locals == <<total_amount, mandate_id, intent_id, authorization_id, invoice_url>>
cart_locals == <<merchant_id, resolved_items, resolved_product_id>>
chat_vars == <<messages, turn, pending>>
run_vars == <<cart, tool, pc, customer_id, total_amount, mandate_id, intent_id,
              authorization_id, invoice_url, outcome, calls, tool_call, merchant_id,
              resolved_items, resolved_product_id, resolves>>
vars == <<run_vars, chat_vars>>

Pending == [kind |-> "Pending", stage |-> "", reason |-> "", invoice_url |-> PyNone]
Success(url) == [kind |-> "Success", stage |-> "", reason |-> "", invoice_url |-> url]
Failure(stage, reason) == [kind |-> "Failure", stage |-> stage, reason |-> reason, invoice_url |-> PyNone]
\* an exception leaves the tool
Raised(what) == [kind |-> "Raised", stage |-> "", reason |-> what, invoice_url |-> PyNone]

Init ==
    /\ cart \in [Customers -> [Products -> Quantities]]
    /\ tool = [r \in Runs |-> "none"]
    /\ pc = [r \in Runs |-> "idle"]
    /\ customer_id = [r \in Runs |-> ""]
    /\ total_amount = [r \in Runs |-> 0]
    /\ mandate_id = [r \in Runs |-> PyNone]
    /\ intent_id = [r \in Runs |-> PyNone]
    /\ authorization_id = [r \in Runs |-> PyNone]
    /\ invoice_url = [r \in Runs |-> PyNone]
    /\ outcome = [r \in Runs |-> Pending]
    /\ calls = [r \in Runs |-> <<>>]
    /\ tool_call = [r \in Runs |-> NoToolCall]
    /\ merchant_id = [r \in Runs |-> ""]
    /\ resolved_items = [r \in Runs |-> <<>>]
    /\ resolved_product_id = [r \in Runs |-> PyNone]
    /\ resolves = [r \in Runs |-> <<>>]
    /\ messages = <<>> /\ turn = "idle" /\ pending = 0

\* the run issues request req and is resumed with result
Call(r, req, http, result) ==
    calls' = [calls EXCEPT ![r] = Append(@, [req |-> req, http |-> http, result |-> result])]

\* Two concurrent checkout runs and a run alone: the run "alone" is the only
\* one to execute until it has returned; then "a", for the same customer and
\* tool, and "b", for another customer, execute concurrently, "a" being
\* answered as "alone" was.
Alone == "alone"
Replay == "a"
Other == "b"
PairRuns == {Alone, Replay, Other}
PairCustomers == [r \in PairRuns |-> IF r = Other THEN "c2" ELSE "c1"]

\* an exchange that lets a checkout go on: a body with every id in it
Smooth(x) ==
    /\ x.fault = "none"
    /\ x.body.kind = "object"
    /\ "cart_state" \in DOMAIN x.body => x.body.cart_state.json = "object"
    /\ "mandate_id" \in DOMAIN x.body => x.body.mandate_id # Absent
    /\ "intent_id" \in DOMAIN x.body => x.body.intent_id \notin {Absent, ""}
    /\ "authorized" \in DOMAIN x.body =>
          /\ x.body.authorized = PyTrue
          /\ x.body.authorization_id # Absent
          /\ x.body.message = Absent
    /\ "result" \in DOMAIN x.body =>
          /\ x.body.result.json = "absent"
          /\ x.body.invoice_url \notin {Absent, ""}
          /\ x.body.invoiceLink = Absent

\* Two concurrent checkout runs for one customer
TwinRuns == {"x", "y"}

\* One tool call given to both checkout tools: "first" runs one tool, "second"
\* the other one on the same responses
BothRuns == {"first", "second"}

\* the exchanges the environment offers to the next request of run r: every
\* exchange, but to "a" the one "alone" met at this request, to "second" the
\* one "first" met at this request (any one past the last request of
\* "first"), and to "b", "x" and "y" a smooth one or a failure to connect
Offered(r, exchanges) ==
    IF r = Replay
    THEN IF Len(calls[r]) < Len(calls[Alone])
         THEN {calls[Alone][Len(calls[r]) + 1].http}
         ELSE {}
    ELSE IF r = "second"
    THEN IF Len(calls[r]) < Len(calls["first"])
         THEN {calls["first"][Len(calls[r]) + 1].http}
         ELSE exchanges
    ELSE IF r \in {Other} \cup TwinRuns
    THEN {x \in exchanges : Smooth(x) \/ x.fault = "connect"}
    ELSE exchanges

\* the tool returns out (or raises)
Return(r, out) ==
    /\ pc' = [pc EXCEPT ![r] = "done"]
    /\ outcome' = [outcome EXCEPT ![r] = out]

\* the tool goes on to its next await
Goto(r, next) ==
    /\ pc' = [pc EXCEPT ![r] = next]
    /\ UNCHANGED outcome

\* ------------------------------------------------------------------------
\* _execute_tool_call of the chat client: decode the arguments, look the
\* handler up, run the tool
\* ------------------------------------------------------------------------
execute_tool_call(r) ==
    /\ pc[r] = "idle"
    /\ \E tc \in ToolCalls :
        /\ tool_call' = [tool_call EXCEPT ![r] = tc]
        /\ IF tc.args_json = "invalid"
           THEN /\ Return(r, Failure("decode-arguments", "Failed to decode tool arguments"))
                /\ UNCHANGED <<tool, customer_id, merchant_id>>
           ELSE IF tc.name \notin Handlers
           THEN /\ Return(r, Failure("no-handler", "No handler found for tool"))
                /\ UNCHANGED <<tool, customer_id, merchant_id>>
           ELSE IF tc.args_json = "non_object" \/ tc.arguments.keys # Parameters(tc.name)
           THEN /\ Return(r, Failure("tool-failed", "TypeError"))
                /\ UNCHANGED <<tool, customer_id, merchant_id>>
           ELSE /\ tool' = [tool EXCEPT ![r] = tc.name]
                /\ customer_id' = [customer_id EXCEPT ![r] = tc.arguments.customer_id]
                /\ merchant_id' = [merchant_id EXCEPT ![r] = tc.arguments.merchant_id]
                /\ Goto(r, "start")
    /\ UNCHANGED <<cart, locals, calls, resolved_items, resolved_product_id, resolves>>
    /\ UNCHANGED chat_vars

\* ------------------------------------------------------------------------
\* Effects of the cart service on the cart store
\* ------------------------------------------------------------------------
\* ClearCart empties the customer's cart; when the helper reports a failure
\* the request may or may not have reached the service
ClearCartEffect(c, clear_result) ==
    \/ cart' = [cart EXCEPT ![c] = EmptyCart]
    \/ HasError(clear_result) /\ UNCHANGED cart

\* ------------------------------------------------------------------------
\* Tool: checkout(customer_id)
\* ------------------------------------------------------------------------
\* not items
checkout_NoItems(items) == Len(items) = 0

\* the limit is computed from the cart as it is when the mandate is built
checkout_mandate_data_from_current_cart(r) ==
    [op |-> "CreateMandate", customer_id |-> customer_id[r], scope |-> "purchase",
     amount_limit |-> AmountLimit(CartTotal(cart[customer_id[r]]))]

checkout_mandate_data(r) ==
    [op |-> "CreateMandate", customer_id |-> customer_id[r], scope |-> "purchase",
     amount_limit |-> AmountLimit(total_amount[r])]

checkout_intent_data(r) ==
    [op |-> "CreateIntent", mandate_id |-> mandate_id[r],
     customer_id |-> customer_id[r], cart_id |-> customer_id[r]]

checkout_auth_data(r) ==
    [op |-> "Authorize", intent_id |-> intent_id[r], mandate_id |-> mandate_id[r]]

checkout_execute_data(r) ==
    [op |-> "Execute", authorization_id |-> authorization_id[r], intent_id |-> intent_id[r]]

\* the text of a result tells the customer "Your cart has been cleared": the
\* success message of both tools ends with that sentence, whatever ClearCart
\* returned; no error text has it
StatesCartCleared(out) == out.kind = "Success"

\* a ClearCart error is returned to the caller
checkout_Result_escalating(clear_result, url) ==
    IF HasError(clear_result)
    THEN Failure("clear-cart", clear_result.error)
    ELSE Success(url)

\* what the tool returns once ClearCart has come back
checkout_Result(clear_result, url) == Success(url)

checkout_Start(r) ==
    /\ pc[r] = "start"
    /\ tool[r] = "checkout"
    /\ IF ~Truthy(customer_id[r])
       THEN Return(r, Failure("missing-customer-id", "customer_id is required"))
       ELSE Goto(r, "ViewCart")
    /\ UNCHANGED <<cart, tool, customer_id, locals, calls, tool_call, cart_locals, resolves>>
    /\ UNCHANGED chat_vars

checkout_ViewCart(r) ==
    /\ tool[r] = "checkout" /\ pc[r] = "ViewCart"
    /\ \E http \in Offered(r, ViewCartExchanges(cart[customer_id[r]])) :
        LET cart_result == make_restate_request(http) IN
        /\ Call(r, [op |-> "ViewCart", customer_id |-> customer_id[r]], http, cart_result)
        /\ IF cart_result.kind = "non_object"
           THEN Return(r, Raised("cart_result is not a dict")) /\ UNCHANGED total_amount
           ELSE IF HasError(cart_result)
           THEN Return(r, Failure("cart-fetch", cart_result.error)) /\ UNCHANGED total_amount
           ELSE LET cart_state == GetDict(cart_result, "cart_state", EmptyDict)
                IN  IF cart_state.json = "null"
                    THEN Return(r, Raised("cart_state is None")) /\ UNCHANGED total_amount
                    ELSE /\ total_amount' = [total_amount EXCEPT ![r] = cart_state.total_amount]
                         /\ IF checkout_NoItems(cart_state.items)
                            THEN Return(r, Failure("empty-cart", "Cannot checkout with an empty cart."))
                            ELSE Goto(r, "CreateMandate")
    /\ UNCHANGED <<tool_call, cart_locals, resolves, cart, tool, customer_id, mandate_id, intent_id, authorization_id, invoice_url>>
    /\ UNCHANGED chat_vars

checkout_CreateMandate(r) ==
    /\ tool[r] = "checkout" /\ pc[r] = "CreateMandate"
    /\ \E http \in Offered(r, MandateExchanges) :
        LET mandate_result == make_ap2_request(http) IN
        /\ Call(r, checkout_mandate_data(r), http, mandate_result)
        /\ IF mandate_result.kind = "non_object"
           THEN Return(r, Raised("mandate_result is not a dict")) /\ UNCHANGED mandate_id
           ELSE IF HasError(mandate_result)
           THEN Return(r, Failure("mandate", mandate_result.error)) /\ UNCHANGED mandate_id
           ELSE /\ mandate_id' = [mandate_id EXCEPT ![r] = Get(mandate_result, "mandate_id", PyNone)]
                /\ Goto(r, "CreateIntent")
    /\ UNCHANGED <<tool_call, cart_locals, resolves, cart, tool, customer_id, total_amount, intent_id, authorization_id, invoice_url>>
    /\ UNCHANGED chat_vars

checkout_CreateIntent(r) ==
    /\ tool[r] = "checkout" /\ pc[r] = "CreateIntent"
    /\ \E http \in Offered(r, IntentExchanges) :
        LET intent_result == make_ap2_request(http) IN
        /\ Call(r, checkout_intent_data(r), http, intent_result)
        /\ IF intent_result.kind = "non_object"
           THEN Return(r, Raised("intent_result is not a dict")) /\ UNCHANGED intent_id
           ELSE IF HasError(intent_result)
           THEN Return(r, Failure("intent", intent_result.error)) /\ UNCHANGED intent_id
           ELSE /\ intent_id' = [intent_id EXCEPT ![r] = Get(intent_result, "intent_id", PyNone)]
                /\ Goto(r, "Authorize")
    /\ UNCHANGED <<tool_call, cart_locals, resolves, cart, tool, customer_id, total_amount, mandate_id, authorization_id, invoice_url>>
    /\ UNCHANGED chat_vars

checkout_Authorize(r) ==
    /\ tool[r] = "checkout" /\ pc[r] = "Authorize"
    /\ \E http \in Offered(r, AuthorizeExchanges) :
        LET auth_result == make_ap2_request(http) IN
        /\ Call(r, checkout_auth_data(r), http, auth_result)
        /\ IF auth_result.kind = "non_object"
           THEN Return(r, Raised("auth_result is not a dict")) /\ UNCHANGED authorization_id
           ELSE IF HasError(auth_result)
           THEN Return(r, Failure("authorize", auth_result.error)) /\ UNCHANGED authorization_id
           ELSE IF ~Truthy(Get(auth_result, "authorized", PyFalse))
           THEN /\ Return(r, Failure("authorization-denied",
                            Get(auth_result, "message", "Unknown authorization failure")))
                /\ UNCHANGED authorization_id
           ELSE /\ authorization_id' = [authorization_id EXCEPT ![r] =
                                            Get(auth_result, "authorization_id", PyNone)]
                /\ Goto(r, "Execute")
    /\ UNCHANGED <<tool_call, cart_locals, resolves, cart, tool, customer_id, total_amount, mandate_id, intent_id, invoice_url>>
    /\ UNCHANGED chat_vars

checkout_Execute(r) ==
    /\ tool[r] = "checkout" /\ pc[r] = "Execute"
    /\ \E http \in Offered(r, ExecuteExchanges) :
        LET execute_result == make_ap2_request(http) IN
        /\ Call(r, checkout_execute_data(r), http, execute_result)
        /\ IF execute_result.kind = "non_object"
           THEN Return(r, Raised("execute_result is not a dict")) /\ UNCHANGED invoice_url
           ELSE IF HasError(execute_result)
           THEN Return(r, Failure("execute", execute_result.error)) /\ UNCHANGED invoice_url
           ELSE LET result_data == GetDict(execute_result, "result", AsPayload(execute_result))
                IN  IF result_data.json = "null"
                    THEN Return(r, Raised("result_data is None")) /\ UNCHANGED invoice_url
                    ELSE /\ invoice_url' = [invoice_url EXCEPT ![r] =
                                PyOr(Get(result_data, "invoice_url", PyNone),
                                     Get(result_data, "invoiceLink", PyNone))]
                         /\ Goto(r, "ClearCart")
    /\ UNCHANGED <<tool_call, cart_locals, resolves, cart, tool, customer_id, total_amount, mandate_id, intent_id, authorization_id>>
    /\ UNCHANGED chat_vars

\* a failed ClearCart is sent again
checkout_ClearCart_retrying(r) ==
    /\ tool[r] = "checkout" /\ pc[r] = "ClearCart"
    /\ \E http \in Offered(r, ClearCartExchanges) :
        LET clear_result == make_restate_request(http) IN
        /\ Call(r, [op |-> "ClearCart", customer_id |-> customer_id[r]], http, clear_result)
        /\ ClearCartEffect(customer_id[r], clear_result)
        /\ IF clear_result.kind = "non_object"
           THEN Return(r, Raised("clear_result is not a container"))
           ELSE IF HasError(clear_result)
           THEN Goto(r, "ClearCart")
           ELSE Return(r, checkout_Result(clear_result, invoice_url[r]))
    /\ UNCHANGED <<tool_call, cart_locals, resolves, tool, customer_id, locals>>
    /\ UNCHANGED chat_vars

checkout_ClearCart(r) ==
    /\ tool[r] = "checkout" /\ pc[r] = "ClearCart"
    /\ \E http \in Offered(r, ClearCartExchanges) :
        LET clear_result == make_restate_request(http) IN
        /\ Call(r, [op |-> "ClearCart", customer_id |-> customer_id[r]], http, clear_result)
        /\ ClearCartEffect(customer_id[r], clear_result)
        /\ IF clear_result.kind = "non_object"
           THEN Return(r, Raised("clear_result is not a container"))
           ELSE Return(r, checkout_Result(clear_result, invoice_url[r]))
    /\ UNCHANGED <<tool_call, cart_locals, resolves, tool, customer_id, locals>>
    /\ UNCHANGED chat_vars

\* ------------------------------------------------------------------------
\* Tool: checkout_cart(customer_id)
\* ------------------------------------------------------------------------
\* the emptiness check is lost
checkout_cart_NoItems_unchecked(items) == FALSE

\* not items
checkout_cart_NoItems(items) == Len(items) = 0

\* customer and total are kept where every run writes them: the request is
\* built from those of another run in flight
checkout_cart_mandate_data_shared(r) ==
    LET in_flight == {q \in DOMAIN pc : q # r /\ pc[q] \notin {"idle", "done"}}
        last == IF in_flight = {} THEN r ELSE CHOOSE q \in in_flight : TRUE
    IN  [op |-> "CreateMandate", customer_id |-> customer_id[last], scope |-> "purchase",
         amount_limit |-> AmountLimit(total_amount[last])]

checkout_cart_mandate_data(r) ==
    [op |-> "CreateMandate", customer_id |-> customer_id[r], scope |-> "purchase",
     amount_limit |-> AmountLimit(total_amount[r])]

checkout_cart_intent_data(r) ==
    [op |-> "CreateIntent", mandate_id |-> mandate_id[r],
     customer_id |-> customer_id[r], cart_id |-> customer_id[r]]

\* the mandate of the authorization is not the one of the intent
checkout_cart_auth_data_no_mandate(r) ==
    [op |-> "Authorize", intent_id |-> intent_id[r], mandate_id |-> PyNone]

checkout_cart_auth_data(r) ==
    [op |-> "Authorize", intent_id |-> intent_id[r], mandate_id |-> mandate_id[r]]

checkout_cart_execute_data(r) ==
    [op |-> "Execute", authorization_id |-> authorization_id[r], intent_id |-> intent_id[r]]

\* a ClearCart error fails the checkout
checkout_cart_Result_escalating(clear_result, url) ==
    IF HasError(clear_result)
    THEN Failure("execute", clear_result.error)
    ELSE Success(url)

\* what the tool returns once ClearCart has come back
checkout_cart_Result(clear_result, url) == Success(url)

checkout_cart_Start(r) ==
    /\ pc[r] = "start"
    /\ tool[r] = "checkout_cart"
    /\ IF ~Truthy(customer_id[r])
       THEN Return(r, Failure("missing-customer-id", "customer_id is required"))
       ELSE Goto(r, "ViewCart")
    /\ UNCHANGED <<cart, tool, customer_id, locals, calls, tool_call, cart_locals, resolves>>
    /\ UNCHANGED chat_vars

checkout_cart_ViewCart(r) ==
    /\ tool[r] = "checkout_cart" /\ pc[r] = "ViewCart"
    /\ \E http \in Offered(r, ViewCartExchanges(cart[customer_id[r]])) :
        LET cart_result == make_restate_request(http) IN
        /\ Call(r, [op |-> "ViewCart", customer_id |-> customer_id[r]], http, cart_result)
        /\ IF cart_result.kind = "non_object"
           THEN Return(r, Raised("cart_result is not a dict")) /\ UNCHANGED total_amount
           ELSE IF HasError(cart_result)
           THEN Return(r, Failure("cart-fetch", cart_result.error)) /\ UNCHANGED total_amount
           ELSE LET cart_state == GetDict(cart_result, "cart_state", EmptyDict)
                IN  IF cart_state.json = "null"
                    THEN Return(r, Raised("cart_state is None")) /\ UNCHANGED total_amount
                    ELSE /\ total_amount' = [total_amount EXCEPT ![r] = cart_state.total_amount]
                         /\ IF checkout_cart_NoItems(cart_state.items)
                            THEN Return(r, Failure("empty-cart", "Cannot checkout with an empty cart."))
                            ELSE Goto(r, "CreateMandate")
    /\ UNCHANGED <<tool_call, cart_locals, resolves, cart, tool, customer_id, mandate_id, intent_id, authorization_id, invoice_url>>
    /\ UNCHANGED chat_vars

checkout_cart_CreateMandate(r) ==
    /\ tool[r] = "checkout_cart" /\ pc[r] = "CreateMandate"
    /\ \E http \in Offered(r, MandateExchanges) :
        LET mandate_result == make_ap2_request(http) IN
        /\ Call(r, checkout_cart_mandate_data(r), http, mandate_result)
        /\ IF mandate_result.kind = "non_object"
           THEN Return(r, Raised("mandate_result is not a dict")) /\ UNCHANGED mandate_id
           ELSE IF HasError(mandate_result)
           THEN Return(r, Failure("mandate", mandate_result.error)) /\ UNCHANGED mandate_id
           ELSE /\ mandate_id' = [mandate_id EXCEPT ![r] = Get(mandate_result, "mandate_id", PyNone)]
                /\ Goto(r, "CreateIntent")
    /\ UNCHANGED <<tool_call, cart_locals, resolves, cart, tool, customer_id, total_amount, intent_id, authorization_id, invoice_url>>
    /\ UNCHANGED chat_vars

checkout_cart_CreateIntent(r) ==
    /\ tool[r] = "checkout_cart" /\ pc[r] = "CreateIntent"
    /\ \E http \in Offered(r, IntentExchanges) :
        LET intent_result == make_ap2_request(http) IN
        /\ Call(r, checkout_cart_intent_data(r), http, intent_result)
        /\ IF intent_result.kind = "non_object"
           THEN Return(r, Raised("intent_result is not a dict")) /\ UNCHANGED intent_id
           ELSE IF HasError(intent_result)
           THEN Return(r, Failure("intent", intent_result.error)) /\ UNCHANGED intent_id
           ELSE /\ intent_id' = [intent_id EXCEPT ![r] = Get(intent_result, "intent_id", PyNone)]
                /\ IF ~Truthy(Get(intent_result, "intent_id", PyNone))
                   THEN Return(r, Failure("intent", "No intent_id received from AP2 intent creation"))
                   ELSE Goto(r, "Authorize")
    /\ UNCHANGED <<tool_call, cart_locals, resolves, cart, tool, customer_id, total_amount, mandate_id, authorization_id, invoice_url>>
    /\ UNCHANGED chat_vars

checkout_cart_Authorize(r) ==
    /\ tool[r] = "checkout_cart" /\ pc[r] = "Authorize"
    /\ \E http \in Offered(r, AuthorizeExchanges) :
        LET auth_result == make_ap2_request(http) IN
        /\ Call(r, checkout_cart_auth_data(r), http, auth_result)
        /\ IF auth_result.kind = "non_object"
           THEN Return(r, Raised("auth_result is not a dict")) /\ UNCHANGED authorization_id
           ELSE IF HasError(auth_result)
           THEN Return(r, Failure("authorize", auth_result.error)) /\ UNCHANGED authorization_id
           ELSE /\ authorization_id' = [authorization_id EXCEPT ![r] =
                                            Get(auth_result, "authorization_id", PyNone)]
                /\ IF ~Truthy(Get(auth_result, "authorization_id", PyNone))
                   THEN Return(r, Failure("authorization-denied",
                                  "No authorization_id received from AP2 authorization"))
                   ELSE Goto(r, "Execute")
    /\ UNCHANGED <<tool_call, cart_locals, resolves, cart, tool, customer_id, total_amount, mandate_id, intent_id, invoice_url>>
    /\ UNCHANGED chat_vars

checkout_cart_Execute(r) ==
    /\ tool[r] = "checkout_cart" /\ pc[r] = "Execute"
    /\ \E http \in Offered(r, ExecuteExchanges) :
        LET execute_result == make_ap2_request(http) IN
        /\ Call(r, checkout_cart_execute_data(r), http, execute_result)
        /\ IF execute_result.kind = "non_object"
           THEN Return(r, Raised("execute_result is not a dict")) /\ UNCHANGED invoice_url
           ELSE IF HasError(execute_result)
           THEN Return(r, Failure("execute", execute_result.error)) /\ UNCHANGED invoice_url
           ELSE LET result_data == GetDict(execute_result, "result", AsPayload(execute_result))
                IN  IF result_data.json = "null"
                    THEN Return(r, Raised("result_data is None")) /\ UNCHANGED invoice_url
                    ELSE LET invoice_link == PyOr(Get(result_data, "invoice_url", PyNone),
                                                  Get(result_data, "invoiceLink", PyNone))
                         IN  /\ invoice_url' = [invoice_url EXCEPT ![r] = invoice_link]
                             /\ IF ~Truthy(invoice_link)
                                THEN Return(r, Failure("missing-invoice",
                                        "No invoice link received from AP2 execution"))
                                ELSE Goto(r, "ClearCart")
    /\ UNCHANGED <<tool_call, cart_locals, resolves, cart, tool, customer_id, total_amount, mandate_id, intent_id, authorization_id>>
    /\ UNCHANGED chat_vars

checkout_cart_ClearCart(r) ==
    /\ tool[r] = "checkout_cart" /\ pc[r] = "ClearCart"
    /\ \E http \in Offered(r, ClearCartExchanges) :
        LET clear_result == make_restate_request(http) IN
        /\ Call(r, [op |-> "ClearCart", customer_id |-> customer_id[r]], http, clear_result)
        /\ ClearCartEffect(customer_id[r], clear_result)
        /\ IF clear_result.kind = "non_object"
           THEN Return(r, Raised("clear_result is not a container"))
           ELSE Return(r, checkout_cart_Result(clear_result, invoice_url[r]))
    /\ UNCHANGED <<tool_call, cart_locals, resolves, tool, customer_id, locals>>
    /\ UNCHANGED chat_vars

\* ------------------------------------------------------------------------
\* The cart service applying AddToCart / UpdateCartItem / RemoveFromCart
\* ------------------------------------------------------------------------
RECURSIVE AddAll(_, _, _)
AddAll(c, items, i) ==
    IF i > Len(items) THEN c
    ELSE AddAll([c EXCEPT ![items[i].product_id] = @ + 1], items, i + 1)

AddAccepted(c, items) ==
    /\ \A i \in 1..Len(items) : items[i].product_id \in Products
    /\ \A p \in Products : AddAll(c, items, 1)[p] <= MaxQty

UpdateAccepted(c, product_id) == product_id \in Products /\ c[product_id] > 0

RemoveAll(c, product_ids) ==
    [p \in Products |-> IF \E i \in 1..Len(product_ids) : product_ids[i] = p THEN 0 ELSE c[p]]

RemoveAccepted(c, product_ids) ==
    \A i \in 1..Len(product_ids) : product_ids[i] \in Products /\ c[product_ids[i]] > 0

NoMutationBody ==
    [kind |-> "object", error |-> Absent, success |-> Absent, message |-> Absent,
     cart_state |-> AbsentCartState]

\* the answers to a request the service accepts (the cart becomes c) or rejects
MutationExchanges(accepted, c) ==
    Exchanges({[NoMutationBody EXCEPT !.kind = "non_object"]} \cup
              (IF accepted
               THEN {[NoMutationBody EXCEPT !.success = PyTrue, !.cart_state = CartState(c)]}
               ELSE {[NoMutationBody EXCEPT !.success = PyFalse, !.message = "Item not found"],
                     [NoMutationBody EXCEPT !.success = PyFalse],
                     [NoMutationBody EXCEPT !.message = "Item not found"],
                     NoMutationBody}),
              NoMutationBody)

\* the service applied the request
Applied(http) ==
    http.fault = "none" /\ http.body.kind = "object" /\ http.body.success = PyTrue

\* a result without an error is taken for a success
cart_tool_Result_success_unchecked(result, stage) ==
    IF result.kind = "non_object" THEN Raised("result is not a dict")
    ELSE IF HasError(result) THEN Failure(stage, result.error)
    ELSE Success(PyNone)

\* what a cart tool returns for the result of its request
cart_tool_Result(result, stage) ==
    IF result.kind = "non_object" THEN Raised("result is not a dict")
    ELSE IF HasError(result) THEN Failure(stage, result.error)
    ELSE IF Truthy(Get(result, "success", PyFalse))
         THEN IF GetDict(result, "cart_state", EmptyDict).json = "null"
              THEN Raised("cart_state is None")
              ELSE Success(PyNone)
    ELSE Failure("rejected", Get(result, "message", "Unknown error"))

\* one call of resolve_product_id by run r, as the log keeps it
Resolve(r, merchant, ref, http, resolved) ==
    /\ resolves' = [resolves EXCEPT ![r] = Append(@,
            [merchant_id |-> merchant, reference |-> ref,
             requested |-> resolve_product_id_requests(ref), http |-> http,
             resolved |-> resolved])]
    /\ IF resolve_product_id_requests(ref)
       THEN Call(r, list_items_data(merchant), http, make_restate_request(http))
       ELSE UNCHANGED calls

\* the exchanges a call of resolve_product_id can meet
ResolveExchanges(ref) ==
    IF resolve_product_id_requests(ref) THEN ListItemsExchanges
    ELSE {[fault |-> "none", body |-> NoItemsBody]}

\* ------------------------------------------------------------------------
\* Tool: view_cart(customer_id)
\* ------------------------------------------------------------------------
view_cart_Start(r) ==
    /\ pc[r] = "start"
    /\ tool[r] = "view_cart"
    /\ IF ~Truthy(customer_id[r])
       THEN Return(r, Failure("missing-customer-id", "customer_id is required"))
       ELSE Goto(r, "ViewCart")
    /\ UNCHANGED <<cart, tool, customer_id, locals, calls, tool_call, cart_locals, resolves>>
    /\ UNCHANGED chat_vars

view_cart_ViewCart(r) ==
    /\ tool[r] = "view_cart" /\ pc[r] = "ViewCart"
    /\ \E http \in ViewCartExchanges(cart[customer_id[r]]) :
        LET result == make_restate_request(http) IN
        /\ Call(r, [op |-> "ViewCart", customer_id |-> customer_id[r]], http, result)
        /\ IF result.kind = "non_object"
           THEN Return(r, Raised("result is not a dict"))
           ELSE IF HasError(result)
           THEN Return(r, Failure("cart-fetch", result.error))
           ELSE IF GetDict(result, "cart_state", EmptyDict).json = "null"
           THEN Return(r, Raised("cart_state is None"))
           ELSE Return(r, Success(PyNone))
    /\ UNCHANGED <<cart, tool, customer_id, locals, tool_call, cart_locals, resolves>>
    /\ UNCHANGED chat_vars

\* ------------------------------------------------------------------------
\* Tool: add_to_cart(customer_id, merchant_id, items)
\* ------------------------------------------------------------------------
\* not customer_id or not merchant_id or not items
add_to_cart_MissingParameter_merchant_unchecked(r) ==
    ~Truthy(customer_id[r]) \/ Len(tool_call[r].arguments.items) = 0

add_to_cart_MissingParameter(r) ==
    ~Truthy(customer_id[r]) \/ ~Truthy(merchant_id[r]) \/ Len(tool_call[r].arguments.items) = 0

\* the request carries the items as the caller gave them
add_to_cart_data_unresolved(r) ==
    [op |-> "AddToCart", customer_id |-> customer_id[r], merchant_id |-> merchant_id[r],
     items |-> [i \in 1..Len(resolved_items[r]) |->
                    [product_id |-> Get(tool_call[r].arguments.items[i], "product_id", "")]]]

add_to_cart_data(r) ==
    [op |-> "AddToCart", customer_id |-> customer_id[r], merchant_id |-> merchant_id[r],
     items |-> resolved_items[r]]

add_to_cart_Start(r) ==
    /\ pc[r] = "start"
    /\ tool[r] = "add_to_cart"
    /\ IF add_to_cart_MissingParameter(r)
       THEN Return(r, Failure("missing-parameter", "customer_id, merchant_id, and items are required"))
       ELSE Goto(r, "Resolve")
    /\ UNCHANGED <<cart, tool, customer_id, locals, calls, tool_call, cart_locals, resolves>>
    /\ UNCHANGED chat_vars

\* one turn of the loop over the items
add_to_cart_Resolve(r) ==
    /\ tool[r] = "add_to_cart" /\ pc[r] = "Resolve"
    /\ LET items == tool_call[r].arguments.items
           item == items[Len(resolved_items[r]) + 1]
           ref == Get(item, "product_id", "")
       IN  \E http \in ResolveExchanges(ref) :
            LET product_id == resolve_product_id(merchant_id[r], ref, http) IN
            /\ Resolve(r, merchant_id[r], ref, http, product_id)
            /\ IF product_id.kind = "raised"
               THEN Return(r, Raised(product_id.value)) /\ UNCHANGED resolved_items
               ELSE /\ resolved_items' = [resolved_items EXCEPT ![r] =
                            Append(@, [product_id |-> product_id.value])]
                    /\ IF Len(resolved_items[r]) + 1 = Len(items)
                       THEN Goto(r, "AddToCart")
                       ELSE Goto(r, "Resolve")
    /\ UNCHANGED <<cart, tool, customer_id, locals, tool_call, merchant_id, resolved_product_id>>
    /\ UNCHANGED chat_vars

add_to_cart_AddToCart(r) ==
    /\ tool[r] = "add_to_cart" /\ pc[r] = "AddToCart"
    /\ LET c == cart[customer_id[r]]
           accepted == AddAccepted(c, resolved_items[r])
           added == IF accepted THEN AddAll(c, resolved_items[r], 1) ELSE c
       IN  \E http \in MutationExchanges(accepted, added) :
            LET result == make_restate_request(http) IN
            /\ Call(r, add_to_cart_data(r), http, result)
            /\ cart' = IF Applied(http) THEN [cart EXCEPT ![customer_id[r]] = added] ELSE cart
            /\ Return(r, cart_tool_Result(result, "add-to-cart"))
    /\ UNCHANGED <<tool, customer_id, locals, tool_call, cart_locals, resolves>>
    /\ UNCHANGED chat_vars

\* ------------------------------------------------------------------------
\* Tool: update_cart_item(customer_id, product_id, quantity)
\* ------------------------------------------------------------------------
update_cart_item_data(r) ==
    [op |-> "UpdateCartItem", customer_id |-> customer_id[r],
     product_id |-> resolved_product_id[r], quantity |-> tool_call[r].arguments.quantity]

update_cart_item_Start(r) ==
    /\ pc[r] = "start"
    /\ tool[r] = "update_cart_item"
    /\ IF ~Truthy(customer_id[r]) \/ ~Truthy(tool_call[r].arguments.product_id)
       THEN Return(r, Failure("missing-parameter", "customer_id and product_id are required"))
       ELSE Goto(r, "ViewCart")
    /\ UNCHANGED <<cart, tool, customer_id, locals, calls, tool_call, cart_locals, resolves>>
    /\ UNCHANGED chat_vars

\* the cart is read for its merchant_id; the result is not checked for an error
update_cart_item_ViewCart(r) ==
    /\ tool[r] = "update_cart_item" /\ pc[r] = "ViewCart"
    /\ \E http \in ViewCartExchanges(cart[customer_id[r]]) :
        LET cart_result == make_restate_request(http) IN
        /\ Call(r, [op |-> "ViewCart", customer_id |-> customer_id[r]], http, cart_result)
        /\ IF cart_result.kind = "non_object"
           THEN Return(r, Raised("cart_result is not a dict")) /\ UNCHANGED merchant_id
           ELSE LET cart_state == GetDict(cart_result, "cart_state", EmptyDict)
                IN  IF cart_state.json = "null"
                    THEN Return(r, Raised("cart_state is None")) /\ UNCHANGED merchant_id
                    ELSE /\ merchant_id' = [merchant_id EXCEPT ![r] =
                                Get(cart_state, "merchant_id", "m_001")]
                         /\ Goto(r, "Resolve")
    /\ UNCHANGED <<cart, tool, customer_id, locals, tool_call, resolved_items,
                   resolved_product_id, resolves>>
    /\ UNCHANGED chat_vars

update_cart_item_Resolve(r) ==
    /\ tool[r] = "update_cart_item" /\ pc[r] = "Resolve"
    /\ LET ref == tool_call[r].arguments.product_id
       IN  \E http \in ResolveExchanges(ref) :
            LET product_id == resolve_product_id(merchant_id[r], ref, http) IN
            /\ Resolve(r, merchant_id[r], ref, http, product_id)
            /\ IF product_id.kind = "raised"
               THEN Return(r, Raised(product_id.value)) /\ UNCHANGED resolved_product_id
               ELSE /\ resolved_product_id' = [resolved_product_id EXCEPT ![r] = product_id.value]
                    /\ Goto(r, "UpdateCartItem")
    /\ UNCHANGED <<cart, tool, customer_id, locals, tool_call, merchant_id, resolved_items>>
    /\ UNCHANGED chat_vars

update_cart_item_UpdateCartItem(r) ==
    /\ tool[r] = "update_cart_item" /\ pc[r] = "UpdateCartItem"
    /\ LET c == cart[customer_id[r]]
           accepted == UpdateAccepted(c, resolved_product_id[r])
           updated == IF accepted
                      THEN [c EXCEPT ![resolved_product_id[r]] = tool_call[r].arguments.quantity]
                      ELSE c
       IN  \E http \in MutationExchanges(accepted, updated) :
            LET result == make_restate_request(http) IN
            /\ Call(r, update_cart_item_data(r), http, result)
            /\ cart' = IF Applied(http) THEN [cart EXCEPT ![customer_id[r]] = updated] ELSE cart
            /\ Return(r, cart_tool_Result(result, "update-cart-item"))
    /\ UNCHANGED <<tool, customer_id, locals, tool_call, cart_locals, resolves>>
    /\ UNCHANGED chat_vars

\* ------------------------------------------------------------------------
\* Tool: remove_from_cart(customer_id, product_ids)
\* ------------------------------------------------------------------------
remove_from_cart_data(r) ==
    [op |-> "RemoveFromCart", customer_id |-> customer_id[r],
     product_ids |-> tool_call[r].arguments.product_ids]

remove_from_cart_Start(r) ==
    /\ pc[r] = "start"
    /\ tool[r] = "remove_from_cart"
    /\ IF ~Truthy(customer_id[r]) \/ Len(tool_call[r].arguments.product_ids) = 0
       THEN Return(r, Failure("missing-parameter", "customer_id and product_ids are required"))
       ELSE Goto(r, "RemoveFromCart")
    /\ UNCHANGED <<cart, tool, customer_id, locals, calls, tool_call, cart_locals, resolves>>
    /\ UNCHANGED chat_vars

remove_from_cart_RemoveFromCart(r) ==
    /\ tool[r] = "remove_from_cart" /\ pc[r] = "RemoveFromCart"
    /\ LET c == cart[customer_id[r]]
           product_ids == tool_call[r].arguments.product_ids
           accepted == RemoveAccepted(c, product_ids)
           removed == IF accepted THEN RemoveAll(c, product_ids) ELSE c
       IN  \E http \in MutationExchanges(accepted, removed) :
            LET result == make_restate_request(http) IN
            /\ Call(r, remove_from_cart_data(r), http, result)
            /\ cart' = IF Applied(http) THEN [cart EXCEPT ![customer_id[r]] = removed] ELSE cart
            /\ Return(r, cart_tool_Result(result, "remove-from-cart"))
    /\ UNCHANGED <<tool, customer_id, locals, tool_call, cart_locals, resolves>>
    /\ UNCHANGED chat_vars

\* ------------------------------------------------------------------------
\* The cart tools, invoked by other clients for a customer while a run is
\* suspended: their AddToCart / UpdateCartItem / RemoveFromCart request,
\* applied by the cart service
\* ------------------------------------------------------------------------
add_to_cart(c, p) ==
    /\ cart[c][p] < MaxQty
    /\ cart' = [cart EXCEPT ![c][p] = @ + 1]
    /\ UNCHANGED <<tool_call, cart_locals, resolves, tool, pc, customer_id, locals, outcome, calls>>
    /\ UNCHANGED chat_vars

update_cart_item(c, p, q) ==
    /\ cart[c][p] > 0
    /\ cart[c][p] # q
    /\ cart' = [cart EXCEPT ![c][p] = q]
    /\ UNCHANGED <<tool_call, cart_locals, resolves, tool, pc, customer_id, locals, outcome, calls>>
    /\ UNCHANGED chat_vars

remove_from_cart(c, p) ==
    /\ cart[c][p] > 0
    /\ cart' = [cart EXCEPT ![c][p] = 0]
    /\ UNCHANGED <<tool_call, cart_locals, resolves, tool, pc, customer_id, locals, outcome, calls>>
    /\ UNCHANGED chat_vars

\* ------------------------------------------------------------------------
\* Specification
\* ------------------------------------------------------------------------
Next ==
    \/ \E r \in Runs : execute_tool_call(r)
    \/ \E r \in Runs : checkout_Start(r)
    \/ \E r \in Runs : checkout_ViewCart(r)
    \/ \E r \in Runs : checkout_CreateMandate(r)
    \/ \E r \in Runs : checkout_CreateIntent(r)
    \/ \E r \in Runs : checkout_Authorize(r)
    \/ \E r \in Runs : checkout_Execute(r)
    \/ \E r \in Runs : checkout_ClearCart(r)
    \/ \E r \in Runs : checkout_cart_Start(r)
    \/ \E r \in Runs : checkout_cart_ViewCart(r)
    \/ \E r \in Runs : checkout_cart_CreateMandate(r)
    \/ \E r \in Runs : checkout_cart_CreateIntent(r)
    \/ \E r \in Runs : checkout_cart_Authorize(r)
    \/ \E r \in Runs : checkout_cart_Execute(r)
    \/ \E r \in Runs : checkout_cart_ClearCart(r)
    \/ \E r \in Runs : view_cart_Start(r)
    \/ \E r \in Runs : view_cart_ViewCart(r)
    \/ \E r \in Runs : add_to_cart_Start(r)
    \/ \E r \in Runs : add_to_cart_Resolve(r)
    \/ \E r \in Runs : add_to_cart_AddToCart(r)
    \/ \E r \in Runs : update_cart_item_Start(r)
    \/ \E r \in Runs : update_cart_item_ViewCart(r)
    \/ \E r \in Runs : update_cart_item_Resolve(r)
    \/ \E r \in Runs : update_cart_item_UpdateCartItem(r)
    \/ \E r \in Runs : remove_from_cart_Start(r)
    \/ \E r \in Runs : remove_from_cart_RemoveFromCart(r)
    \/ \E c \in Customers, p \in Products : add_to_cart(c, p)
    \/ \E c \in Customers, p \in Products, q \in Quantities : update_cart_item(c, p, q)
    \/ \E c \in Customers, p \in Products : remove_from_cart(c, p)

Spec == Init /\ [][Next]_vars

\* ------------------------------------------------------------------------
\* Specification of two concurrent checkout runs for different customers,
\* after a run alone
\* ------------------------------------------------------------------------
InitPair ==
    /\ \E c \in {EmptyCart, [p \in Products |-> IF p = "i_001" THEN 1 ELSE MaxQty]} :
          cart = [customer \in {"c1", "c2"} |->
                     IF customer = "c1" THEN c
                     ELSE [p \in Products |-> IF p = "i_001" THEN MaxQty ELSE 1]]
    /\ tool = [r \in PairRuns |-> "none"]
    /\ pc = [r \in PairRuns |-> "idle"]
    /\ customer_id = [r \in PairRuns |-> ""]
    /\ total_amount = [r \in PairRuns |-> 0]
    /\ mandate_id = [r \in PairRuns |-> PyNone]
    /\ intent_id = [r \in PairRuns |-> PyNone]
    /\ authorization_id = [r \in PairRuns |-> PyNone]
    /\ invoice_url = [r \in PairRuns |-> PyNone]
    /\ outcome = [r \in PairRuns |-> Pending]
    /\ calls = [r \in PairRuns |-> <<>>]
    /\ tool_call = [r \in PairRuns |-> NoToolCall]
    /\ merchant_id = [r \in PairRuns |-> ""]
    /\ resolved_items = [r \in PairRuns |-> <<>>]
    /\ resolved_product_id = [r \in PairRuns |-> PyNone]
    /\ resolves = [r \in PairRuns |-> <<>>]
    /\ messages = <<>> /\ turn = "idle" /\ pending = 0

\* the client dispatches a checkout tool call for the customer of run r
Begin(r) ==
    /\ pc[r] = "idle"
    /\ IF r = Alone THEN TRUE ELSE pc[Alone] = "done"
    /\ \E name \in Tools :
        /\ r = Replay => name = tool[Alone]
        /\ tool' = [tool EXCEPT ![r] = name]
        /\ tool_call' = [tool_call EXCEPT ![r] =
                [name |-> name, args_json |-> "object",
                 arguments |-> [NoArguments EXCEPT !.keys = Parameters(name),
                                                   !.customer_id = PairCustomers[r]]]]
    /\ customer_id' = [customer_id EXCEPT ![r] = PairCustomers[r]]
    /\ Goto(r, "start")
    /\ UNCHANGED <<cart, locals, calls, cart_locals, resolves>>
    /\ UNCHANGED chat_vars

NextPair ==
    \/ \E r \in PairRuns : Begin(r)
    \/ \E r \in PairRuns : checkout_Start(r)
    \/ \E r \in PairRuns : checkout_ViewCart(r)
    \/ \E r \in PairRuns : checkout_CreateMandate(r)
    \/ \E r \in PairRuns : checkout_CreateIntent(r)
    \/ \E r \in PairRuns : checkout_Authorize(r)
    \/ \E r \in PairRuns : checkout_Execute(r)
    \/ \E r \in PairRuns : checkout_ClearCart(r)
    \/ \E r \in PairRuns : checkout_cart_Start(r)
    \/ \E r \in PairRuns : checkout_cart_ViewCart(r)
    \/ \E r \in PairRuns : checkout_cart_CreateMandate(r)
    \/ \E r \in PairRuns : checkout_cart_CreateIntent(r)
    \/ \E r \in PairRuns : checkout_cart_Authorize(r)
    \/ \E r \in PairRuns : checkout_cart_Execute(r)
    \/ \E r \in PairRuns : checkout_cart_ClearCart(r)

SpecPair == InitPair /\ [][NextPair]_vars

\* ------------------------------------------------------------------------
\* Specification of two concurrent checkout runs for the same customer
\* ------------------------------------------------------------------------
InitTwin ==
    /\ cart \in [Customers -> [Products -> Quantities] \ {EmptyCart}]
    /\ tool = [r \in TwinRuns |-> "none"]
    /\ pc = [r \in TwinRuns |-> "idle"]
    /\ customer_id = [r \in TwinRuns |-> ""]
    /\ total_amount = [r \in TwinRuns |-> 0]
    /\ mandate_id = [r \in TwinRuns |-> PyNone]
    /\ intent_id = [r \in TwinRuns |-> PyNone]
    /\ authorization_id = [r \in TwinRuns |-> PyNone]
    /\ invoice_url = [r \in TwinRuns |-> PyNone]
    /\ outcome = [r \in TwinRuns |-> Pending]
    /\ calls = [r \in TwinRuns |-> <<>>]
    /\ tool_call = [r \in TwinRuns |-> NoToolCall]
    /\ merchant_id = [r \in TwinRuns |-> ""]
    /\ resolved_items = [r \in TwinRuns |-> <<>>]
    /\ resolved_product_id = [r \in TwinRuns |-> PyNone]
    /\ resolves = [r \in TwinRuns |-> <<>>]
    /\ messages = <<>> /\ turn = "idle" /\ pending = 0

\* the client dispatches a checkout tool call for the customer
BeginTwin(r) ==
    /\ pc[r] = "idle"
    /\ \E name \in Tools, c \in Customers :
        /\ tool' = [tool EXCEPT ![r] = name]
        /\ tool_call' = [tool_call EXCEPT ![r] =
                [name |-> name, args_json |-> "object",
                 arguments |-> [NoArguments EXCEPT !.keys = Parameters(name),
                                                   !.customer_id = c]]]
        /\ customer_id' = [customer_id EXCEPT ![r] = c]
    /\ Goto(r, "start")
    /\ UNCHANGED <<cart, locals, calls, cart_locals, resolves>>
    /\ UNCHANGED chat_vars

NextTwin ==
    \/ \E r \in TwinRuns : BeginTwin(r)
    \/ \E r \in TwinRuns : checkout_Start(r)
    \/ \E r \in TwinRuns : checkout_ViewCart(r)
    \/ \E r \in TwinRuns : checkout_CreateMandate(r)
    \/ \E r \in TwinRuns : checkout_CreateIntent(r)
    \/ \E r \in TwinRuns : checkout_Authorize(r)
    \/ \E r \in TwinRuns : checkout_Execute(r)
    \/ \E r \in TwinRuns : checkout_ClearCart(r)
    \/ \E r \in TwinRuns : checkout_cart_Start(r)
    \/ \E r \in TwinRuns : checkout_cart_ViewCart(r)
    \/ \E r \in TwinRuns : checkout_cart_CreateMandate(r)
    \/ \E r \in TwinRuns : checkout_cart_CreateIntent(r)
    \/ \E r \in TwinRuns : checkout_cart_Authorize(r)
    \/ \E r \in TwinRuns : checkout_cart_Execute(r)
    \/ \E r \in TwinRuns : checkout_cart_ClearCart(r)

SpecTwin == InitTwin /\ [][NextTwin]_vars

\* ------------------------------------------------------------------------
\* Specification of the two checkout tools given the same responses
\* ------------------------------------------------------------------------
InitBoth ==
    /\ cart \in [Customers -> [Products -> Quantities]]
    /\ tool = [r \in BothRuns |-> "none"]
    /\ pc = [r \in BothRuns |-> "idle"]
    /\ customer_id = [r \in BothRuns |-> ""]
    /\ total_amount = [r \in BothRuns |-> 0]
    /\ mandate_id = [r \in BothRuns |-> PyNone]
    /\ intent_id = [r \in BothRuns |-> PyNone]
    /\ authorization_id = [r \in BothRuns |-> PyNone]
    /\ invoice_url = [r \in BothRuns |-> PyNone]
    /\ outcome = [r \in BothRuns |-> Pending]
    /\ calls = [r \in BothRuns |-> <<>>]
    /\ tool_call = [r \in BothRuns |-> NoToolCall]
    /\ merchant_id = [r \in BothRuns |-> ""]
    /\ resolved_items = [r \in BothRuns |-> <<>>]
    /\ resolved_product_id = [r \in BothRuns |-> PyNone]
    /\ resolves = [r \in BothRuns |-> <<>>]
    /\ messages = <<>> /\ turn = "idle" /\ pending = 0

\* the client dispatches a checkout tool call: "first" with either tool,
\* "second", once "first" has returned, with the other tool and the same
\* customer
BeginBoth(r) ==
    /\ pc[r] = "idle"
    /\ r = "second" => pc["first"] = "done"
    /\ \E name \in Tools, c \in Customers :
        /\ r = "second" => name # tool["first"] /\ c = customer_id["first"]
        /\ tool' = [tool EXCEPT ![r] = name]
        /\ tool_call' = [tool_call EXCEPT ![r] =
                [name |-> name, args_json |-> "object",
                 arguments |-> [NoArguments EXCEPT !.keys = Parameters(name),
                                                   !.customer_id = c]]]
        /\ customer_id' = [customer_id EXCEPT ![r] = c]
    /\ Goto(r, "start")
    /\ UNCHANGED <<cart, locals, calls, cart_locals, resolves>>
    /\ UNCHANGED chat_vars

NextBoth ==
    \/ \E r \in BothRuns : BeginBoth(r)
    \/ \E r \in BothRuns : checkout_Start(r)
    \/ \E r \in BothRuns : checkout_ViewCart(r)
    \/ \E r \in BothRuns : checkout_CreateMandate(r)
    \/ \E r \in BothRuns : checkout_CreateIntent(r)
    \/ \E r \in BothRuns : checkout_Authorize(r)
    \/ \E r \in BothRuns : checkout_Execute(r)
    \/ \E r \in BothRuns : checkout_ClearCart(r)
    \/ \E r \in BothRuns : checkout_cart_Start(r)
    \/ \E r \in BothRuns : checkout_cart_ViewCart(r)
    \/ \E r \in BothRuns : checkout_cart_CreateMandate(r)
    \/ \E r \in BothRuns : checkout_cart_CreateIntent(r)
    \/ \E r \in BothRuns : checkout_cart_Authorize(r)
    \/ \E r \in BothRuns : checkout_cart_Execute(r)
    \/ \E r \in BothRuns : checkout_cart_ClearCart(r)

SpecBoth == InitBoth /\ [][NextBoth]_vars

\* ------------------------------------------------------------------------
\* Specification of a checkout run whose remote calls all return
\* ------------------------------------------------------------------------
\* the next step of the tool of run r: each of them is the code running up to
\* its next await and the awaited request returning a payload or an error
CheckoutStep(r) ==
    \/ checkout_Start(r)
    \/ checkout_ViewCart(r)
    \/ checkout_CreateMandate(r)
    \/ checkout_CreateIntent(r)
    \/ checkout_Authorize(r)
    \/ checkout_Execute(r)
    \/ checkout_ClearCart(r)
    \/ checkout_cart_Start(r)
    \/ checkout_cart_ViewCart(r)
    \/ checkout_cart_CreateMandate(r)
    \/ checkout_cart_CreateIntent(r)
    \/ checkout_cart_Authorize(r)
    \/ checkout_cart_Execute(r)
    \/ checkout_cart_ClearCart(r)

NextLive ==
    \/ \E r \in Runs : BeginTwin(r)
    \/ \E r \in Runs : checkout_Start(r)
    \/ \E r \in Runs : checkout_ViewCart(r)
    \/ \E r \in Runs : checkout_CreateMandate(r)
    \/ \E r \in Runs : checkout_CreateIntent(r)
    \/ \E r \in Runs : checkout_Authorize(r)
    \/ \E r \in Runs : checkout_Execute(r)
    \/ \E r \in Runs : checkout_ClearCart(r)
    \/ \E r \in Runs : checkout_cart_Start(r)
    \/ \E r \in Runs : checkout_cart_ViewCart(r)
    \/ \E r \in Runs : checkout_cart_CreateMandate(r)
    \/ \E r \in Runs : checkout_cart_CreateIntent(r)
    \/ \E r \in Runs : checkout_cart_Authorize(r)
    \/ \E r \in Runs : checkout_cart_Execute(r)
    \/ \E r \in Runs : checkout_cart_ClearCart(r)

SpecLive ==
    /\ Init
    /\ [][NextLive]_vars
    /\ \A r \in Runs : WF_vars(CheckoutStep(r))

\* ------------------------------------------------------------------------
\* The chat turn of the tool-calling client: _chat_turn
\* ------------------------------------------------------------------------
\* model requests of one turn
MaxRequests == 2

\* the tool calls the model hands out, one of each case of _execute_tool_call:
\* a tool with its arguments, a tool without its argument, a name without a
\* handler, and arguments that are not JSON
ChatToolCalls ==
    {tc \in ToolCalls :
        \/ /\ tc.name = "view_cart" /\ tc.args_json = "object"
           /\ tc.arguments.customer_id \in Customers
           /\ tc.arguments.keys = Parameters("view_cart")
        \/ tc.name = "view_cart" /\ tc.args_json = "empty"
        \/ tc.name = "unknown_tool" /\ tc.args_json = "empty"
        \/ tc.name = "checkout" /\ tc.args_json = "invalid"}

\* the tool_calls of an assistant message: none, one or two, with the ids the
\* model gave them
ToolCallLists ==
    {<<>>}
    \cup {<<[id |-> "call_1", function |-> f]>> : f \in ChatToolCalls}
    \cup {<<[id |-> "call_1", function |-> f], [id |-> "call_2", function |-> g]>> :
              f \in ChatToolCalls, g \in ChatToolCalls}

Message(role, content, tool_call_id, name, tool_calls) ==
    [role |-> role, content |-> content, tool_call_id |-> tool_call_id,
     name |-> name, tool_calls |-> tool_calls]

AssistantMessages ==
    {Message("assistant", content, Absent, Absent, tool_calls) :
        content \in {PyNone, "text"}, tool_calls \in ToolCallLists}

\* what _execute_tool_call can return for a tool call: the tool's text, or
\* the error of a tool that raised
execute_tool_call_results(tc) ==
    IF tc.args_json = "invalid"
    THEN {[content |-> "", error |-> "Failed to decode tool arguments"]}
    ELSE IF tc.name \notin Handlers
    THEN {[content |-> "", error |-> "No handler found for tool"]}
    ELSE IF tc.args_json = "non_object" \/ tc.arguments.keys # Parameters(tc.name)
    THEN {[content |-> "", error |-> "Tool failed: TypeError"]}
    ELSE {[content |-> "result", error |-> PyNone], [content |-> "", error |-> "Tool failed"]}

\* the tool message appended for a tool call; the id is dropped
tool_message_without_id(call, execution) ==
    Message("tool",
            IF Truthy(execution.error) THEN execution.error ELSE execution.content,
            PyNone, call.function.name, <<>>)

\* the tool message appended for a tool call
tool_message(call, execution) ==
    Message("tool",
            IF Truthy(execution.error) THEN execution.error ELSE execution.content,
            call.id, call.function.name, <<>>)

InitChat ==
    /\ cart = [c \in Customers |-> EmptyCart]
    /\ tool = [r \in Runs |-> "none"]
    /\ pc = [r \in Runs |-> "idle"]
    /\ customer_id = [r \in Runs |-> ""]
    /\ total_amount = [r \in Runs |-> 0]
    /\ mandate_id = [r \in Runs |-> PyNone]
    /\ intent_id = [r \in Runs |-> PyNone]
    /\ authorization_id = [r \in Runs |-> PyNone]
    /\ invoice_url = [r \in Runs |-> PyNone]
    /\ outcome = [r \in Runs |-> Pending]
    /\ calls = [r \in Runs |-> <<>>]
    /\ tool_call = [r \in Runs |-> NoToolCall]
    /\ merchant_id = [r \in Runs |-> ""]
    /\ resolved_items = [r \in Runs |-> <<>>]
    /\ resolved_product_id = [r \in Runs |-> PyNone]
    /\ resolves = [r \in Runs |-> <<>>]
    /\ messages = <<Message("system", "prompt", Absent, Absent, <<>>)>>
    /\ turn = "idle"
    /\ pending = 0

\* messages.append({"role": "user", ...})
chat_turn_Start ==
    /\ turn = "idle"
    /\ messages' = Append(messages, Message("user", "user_input", Absent, Absent, <<>>))
    /\ turn' = "request"
    /\ UNCHANGED <<pending, run_vars>>

\* assistant_message = _call_openrouter(messages, tools): the request raises
\* (requests.RequestException, or KeyError for a body without choices) and
\* the exception leaves _chat_turn, or the message is appended
chat_turn_call_openrouter ==
    /\ turn = "request"
    /\ Cardinality({i \in 1..Len(messages) : messages[i].role = "assistant"}) < MaxRequests
    /\ \/ /\ turn' = "raised"
          /\ UNCHANGED <<messages, pending>>
       \/ \E assistant_message \in AssistantMessages :
            /\ messages' = Append(messages, assistant_message)
            /\ IF assistant_message.tool_calls = <<>>
               THEN turn' = "returned" /\ pending' = 0
               ELSE turn' = "tools" /\ pending' = 1
    /\ UNCHANGED run_vars

\* one pass of the loop over tool_calls: execute the call, append its message
chat_turn_tool_call ==
    /\ turn = "tools"
    /\ LET tool_calls == messages[Len(messages) - pending + 1].tool_calls
           tc == tool_calls[pending]
       IN  /\ \E execution \in execute_tool_call_results(tc.function) :
                messages' = Append(messages, tool_message(tc, execution))
           /\ IF pending = Len(tool_calls)
              THEN turn' = "request" /\ pending' = 0
              ELSE turn' = turn /\ pending' = pending + 1
    /\ UNCHANGED run_vars

NextChat ==
    \/ chat_turn_Start
    \/ chat_turn_call_openrouter
    \/ chat_turn_tool_call

SpecChat == InitChat /\ [][NextChat]_vars

\* ------------------------------------------------------------------------
\* Vocabulary of the properties
\* ------------------------------------------------------------------------
Order == <<"ViewCart", "CreateMandate", "CreateIntent", "Authorize", "Execute", "ClearCart">>

\* the runs of the two checkout tools
CheckoutRuns == {r \in Runs : tool[r] \in Tools}

Finished(r) == pc[r] = "done"

\* the run has issued a request of this kind
Issued(r, op) == \E i \in 1..Len(calls[r]) : calls[r][i].req.op = op

\* the call returned a JSON object that carries no error
ReturnedOk(result) == result.kind = "object" /\ result.error = Absent

\* the run's call number i was request op and returned without error
Answered(r, i, op) ==
    /\ Len(calls[r]) >= i
    /\ calls[r][i].req.op = op
    /\ ReturnedOk(calls[r][i].result)

\* the item list ViewCart returned to the run (empty when the list is absent)
ViewedItems(r) == calls[r][1].result.cart_state.items

\* the run read a cart with at least one item
SawItems(r) ==
    /\ Answered(r, 1, "ViewCart")
    /\ calls[r][1].result.cart_state.json = "object"
    /\ Len(ViewedItems(r)) > 0

\* the execution payload of an Execute body: under "result" when that key is
\* there, else the body
PayloadOf(result) ==
    IF result.result.json = "absent"
    THEN [json |-> "object", invoice_url |-> result.invoice_url, invoiceLink |-> result.invoiceLink]
    ELSE result.result

HasInvoice(payload) ==
    \/ payload.invoice_url \notin {Absent, PyNone, ""}
    \/ payload.invoiceLink \notin {Absent, PyNone, ""}

Stages == {"cart-fetch", "mandate", "intent", "authorize", "authorization-denied",
           "execute", "missing-invoice"}

\* ------------------------------------------------------------------------
\* C1: a checkout run on a cart with at least one item ends either in Success
\* with a non-empty invoice URL or in a Failure tagged with one of the stages
\* cart-fetch, mandate, intent, authorize, authorization-denied, execute,
\* missing-invoice.
\* ------------------------------------------------------------------------
C1_SuccessWithInvoiceOrStagedFailure ==
    \A r \in CheckoutRuns :
        (Finished(r) /\ SawItems(r)) =>
            \/ outcome[r].kind = "Success" /\ outcome[r].invoice_url \notin {PyNone, ""}
            \/ outcome[r].kind = "Failure" /\ outcome[r].stage \in Stages

\* ------------------------------------------------------------------------
\* C2: when the Authorize response has authorized=false or lacks authorized,
\* the run issues no Execute request, whatever else the response carries.
\* ------------------------------------------------------------------------
C2_NoExecuteWithoutAuthorized ==
    \A r \in CheckoutRuns :
        (/\ Answered(r, 4, "Authorize")
         /\ calls[r][4].result.authorized \in {Absent, PyFalse})
            => ~Issued(r, "Execute")

\* ------------------------------------------------------------------------
\* C3: when Execute returns without error and its payload has neither
\* invoice_url nor invoiceLink, the run returns Failure{missing-invoice} and
\* does not report Success.
\* ------------------------------------------------------------------------
C3_MissingInvoiceIsFailure ==
    \A r \in CheckoutRuns :
        (/\ Finished(r)
         /\ Answered(r, 5, "Execute")
         /\ PayloadOf(calls[r][5].result).json = "object"
         /\ ~HasInvoice(PayloadOf(calls[r][5].result)))
            => /\ outcome[r].kind = "Failure"
               /\ outcome[r].stage = "missing-invoice"

\* ------------------------------------------------------------------------
\* C4: when ViewCart returns an empty or absent item list, the run returns
\* Failure{empty-cart} and ViewCart is the only request it ever issues (no
\* CreateMandate, CreateIntent, Authorize, Execute or ClearCart).
\* ------------------------------------------------------------------------
SawEmptyCart(r) ==
    /\ Answered(r, 1, "ViewCart")
    /\ calls[r][1].result.cart_state.json # "null"
    /\ Len(ViewedItems(r)) = 0

C4_EmptyCartStopsTheRun ==
    \A r \in CheckoutRuns :
        SawEmptyCart(r) =>
            /\ Finished(r)
            /\ outcome[r].kind = "Failure" /\ outcome[r].stage = "empty-cart"
            /\ Len(calls[r]) = 1

C4_Witness ==
    \E r \in CheckoutRuns :
        /\ SawEmptyCart(r)
        /\ calls[r][1].result.cart_state.json = "object"
        /\ outcome[r].stage = "empty-cart"

\* ------------------------------------------------------------------------
\* C5: when Execute returned an invoice URL, the run returns Success whether
\* ClearCart then succeeds or returns an error.
\* ------------------------------------------------------------------------
ExecutedWithInvoice(r) ==
    /\ Answered(r, 5, "Execute")
    /\ PayloadOf(calls[r][5].result).json = "object"
    /\ HasInvoice(PayloadOf(calls[r][5].result))

C5_ClearCartFailureKeepsSuccess ==
    \A r \in CheckoutRuns :
        (/\ Finished(r)
         /\ ExecutedWithInvoice(r)
         /\ Len(calls[r]) = 6
         /\ calls[r][6].result.kind = "object")
            => outcome[r].kind = "Success"

C5_Witness ==
    \E r \in CheckoutRuns :
        /\ Finished(r)
        /\ ExecutedWithInvoice(r)
        /\ Len(calls[r]) = 6
        /\ calls[r][6].req.op = "ClearCart"
        /\ calls[r][6].result.error # Absent
        /\ outcome[r].kind = "Success"

\* ------------------------------------------------------------------------
\* C6: under any interleaving with cart changes, the amount_limit of the
\* CreateMandate request is the total_amount of the run's one ViewCart
\* result times 1.1, and the run issues ViewCart exactly once.
\* ------------------------------------------------------------------------
C6_AmountLimitFromTheOneViewCart ==
    \A r \in CheckoutRuns : \A i \in 1..Len(calls[r]) :
        /\ (calls[r][i].req.op = "ViewCart") = (i = 1)
        /\ calls[r][i].req.op = "CreateMandate" =>
              calls[r][i].req.amount_limit =
                  DblMulInt(calls[r][1].result.cart_state.total_amount, Dbl1_1)

\* the mandate has been requested and the cart's total is no longer the one
\* the run read
C6_Witness ==
    \E r \in CheckoutRuns :
        /\ Issued(r, "CreateMandate")
        /\ SawItems(r)
        /\ CartTotal(cart[customer_id[r]]) # calls[r][1].result.cart_state.total_amount

StepFailed(r, i) ==
    LET result == calls[r][i].result
        op == calls[r][i].req.op
    IN  /\ result.kind = "object"
        /\ \/ result.error # Absent
           \/ op = "ViewCart" /\ SawEmptyCart(r)
           \/ op = "CreateIntent" /\ result.intent_id \in {Absent, ""}
           \/ op = "Authorize" /\ result.authorized # PyTrue
           \/ op = "Execute" /\ PayloadOf(result).json = "object"
                             /\ ~HasInvoice(PayloadOf(result))

C8_FailedStepIsTheLastRequest ==
    \A r \in CheckoutRuns : \A i \in 1..Len(calls[r]) :
        (calls[r][i].req.op # "ClearCart" /\ StepFailed(r, i)) =>
            /\ Len(calls[r]) = i
            /\ Finished(r)
            /\ outcome[r].kind = "Failure"

\* ------------------------------------------------------------------------
\* C9: when CreateIntent returns without error but carries no intent_id, the
\* run returns Failure{intent} and issues neither Authorize nor Execute.
\* ------------------------------------------------------------------------
C9_MissingIntentIdStopsTheRun ==
    \A r \in CheckoutRuns :
        (/\ Answered(r, 3, "CreateIntent")
         /\ calls[r][3].result.intent_id = Absent)
            => /\ Finished(r)
               /\ outcome[r].kind = "Failure" /\ outcome[r].stage = "intent"
               /\ ~Issued(r, "Authorize")
               /\ ~Issued(r, "Execute")

\* ------------------------------------------------------------------------
\* C10: when Authorize returns without error and authorized is not true, the
\* outcome is Failure{authorization-denied} and its reason is the message of
\* the Authorize response.
\* ------------------------------------------------------------------------
C10_DenialCarriesTheMessage ==
    \A r \in CheckoutRuns :
        (/\ Answered(r, 4, "Authorize")
         /\ calls[r][4].result.authorized # PyTrue
         /\ calls[r][4].result.message # Absent)
            => /\ Finished(r)
               /\ outcome[r].kind = "Failure"
               /\ outcome[r].stage = "authorization-denied"
               /\ outcome[r].reason = calls[r][4].result.message

\* ------------------------------------------------------------------------
\* C11: the execution payload is the value under "result" when the Execute
\* body has that key and the whole body otherwise; a run that got an invoice
\* reports Success with the payload's invoice_url if it has one, else with its
\* invoiceLink -- for the nested and for the flat body alike.
\* ------------------------------------------------------------------------
FirstInvoice(payload) ==
    IF payload.invoice_url \notin {Absent, PyNone, ""}
    THEN payload.invoice_url
    ELSE payload.invoiceLink

C11_InvoiceFromNestedOrFlatPayload ==
    \A r \in CheckoutRuns :
        (/\ Finished(r)
         /\ ExecutedWithInvoice(r)
         /\ Len(calls[r]) = 6
         /\ calls[r][6].result.kind = "object")
            => /\ outcome[r].kind = "Success"
               /\ outcome[r].invoice_url = FirstInvoice(PayloadOf(calls[r][5].result))

\* Success from an invoice that is only under result.invoiceLink
C11_Witness ==
    \E r \in CheckoutRuns :
        /\ Finished(r)
        /\ ExecutedWithInvoice(r)
        /\ calls[r][5].result.result.json = "object"
        /\ calls[r][5].result.result.invoice_url = Absent
        /\ outcome[r].kind = "Success"
        /\ outcome[r].invoice_url = calls[r][5].result.result.invoiceLink

\* ------------------------------------------------------------------------
\* C12: whatever the remote services answer, a checkout run returns a
\* Success or a Failure; no exception leaves checkout or checkout_cart.
\* ------------------------------------------------------------------------
C12_NoExceptionEscapes ==
    \A r \in CheckoutRuns : outcome[r].kind # "Raised"

\* ------------------------------------------------------------------------
\* C13: make_restate_request and make_ap2_request never raise: on a connection
\* failure, a timeout, a non-2xx status or an undecodable body they return a
\* dict with an error description, and on a 2xx response with a decodable
\* body they return that body.
\* ------------------------------------------------------------------------
C13_HelpersReturnErrorOrBody ==
    \A r \in DOMAIN calls : \A i \in 1..Len(calls[r]) :
        LET http == calls[r][i].http
            result == calls[r][i].result
        IN  /\ result.kind # "raised"
            /\ http.fault # "none" =>
                  /\ result.kind = "object"
                  /\ result.error \notin {Absent, PyNone, ""}
            /\ http.fault = "none" => result = http.body

\* both helpers have turned an undecodable 2xx body into an error dict
C13_Witness ==
    \E r \in DOMAIN calls : \E i, j \in 1..Len(calls[r]) :
        /\ calls[r][i].req.op = "ViewCart"
        /\ calls[r][i].http.fault = "none"
        /\ calls[r][j].req.op = "CreateMandate"
        /\ calls[r][j].http.fault = "decode"
        /\ calls[r][j].result.error # Absent

\* ------------------------------------------------------------------------
\* Vocabulary of the tool calls and of the resolution of product references
\* ------------------------------------------------------------------------
\* the arguments the claim names
RequiredArguments == {"customer_id", "merchant_id", "items", "product_id", "product_ids"}

\* the argument is not among the decoded arguments, or it is empty
MissingOrEmpty(tc, key) ==
    \/ tc.args_json # "object"
    \/ key \notin tc.arguments.keys
    \/ IF key \in {"items", "product_ids"}
       THEN Len(tc.arguments[key]) = 0
       ELSE tc.arguments[key] \in {"", PyNone}

\* a call of an unknown tool, with arguments that are not JSON, or without
\* one of the arguments the tool requires
Undispatchable(tc) ==
    \/ tc.name \notin Handlers
    \/ tc.args_json = "invalid"
    \/ \E key \in Parameters(tc.name) \cap RequiredArguments : MissingOrEmpty(tc, key)

\* the run has taken its tool call
Dispatched(r) == pc[r] # "idle"

\* the reference starts with a category letter and an underscore
IdPrefixed(ref) ==
    ref # PyNone /\ (startswith(ref, "i_") \/ startswith(ref, "f_") \/ startswith(ref, "b_"))

\* the request a cart tool sends to change the cart
UpstreamOp(r) ==
    CASE tool[r] = "add_to_cart" -> "AddToCart"
      [] tool[r] = "update_cart_item" -> "UpdateCartItem"
      [] OTHER -> "none"

\* the product id the upstream request carries for the run's resolution i
Carried(r, req, i) ==
    IF req.op = "AddToCart" THEN req.items[i].product_id ELSE req.product_id

\* ------------------------------------------------------------------------
\* C14: a tool call with an unknown name, with undecodable arguments, or
\* with a required argument missing or empty ends in a failure, and the run
\* issues no remote request (none to the cart/merchant runtime, none to the
\* payment adapter) and no resolution.
\* ------------------------------------------------------------------------
C14_UndispatchableCallFailsWithoutRequest ==
    \A r \in Runs :
        Dispatched(r) /\ Undispatchable(tool_call[r]) =>
            /\ calls[r] = <<>>
            /\ resolves[r] = <<>>
            /\ pc[r] \in {"start", "done"}
            /\ Finished(r) => outcome[r].kind = "Failure"

\* add_to_cart was called with a customer and items but an empty merchant_id
C14_Witness ==
    \E r \in Runs :
        /\ Finished(r)
        /\ tool[r] = "add_to_cart"
        /\ Truthy(customer_id[r])
        /\ merchant_id[r] = ""
        /\ Len(tool_call[r].arguments.items) > 0
        /\ outcome[r].kind = "Failure"

\* ------------------------------------------------------------------------
\* C15: resolve_product_id returns an id-prefixed reference unchanged, and a
\* run all of whose references are id-prefixed issues no ListItems request.
\* ------------------------------------------------------------------------
C15_IdPrefixedReferenceUnchanged ==
    \A r \in Runs :
        /\ \A i \in 1..Len(resolves[r]) :
              IdPrefixed(resolves[r][i].reference) =>
                  /\ resolves[r][i].resolved = Returned(resolves[r][i].reference)
                  /\ ~resolves[r][i].requested
        /\ (\A i \in 1..Len(resolves[r]) : IdPrefixed(resolves[r][i].reference))
              => ~Issued(r, "ListItems")

\* update_cart_item sent its request for the reference b_7
C15_Witness ==
    \E r \in Runs :
        /\ Issued(r, "UpdateCartItem")
        /\ resolves[r][1].reference = "b_7"
        /\ resolved_product_id[r] = "b_7"

\* ------------------------------------------------------------------------
\* C16: when the ListItems fetch of a reference that is not id-prefixed
\* fails, resolve_product_id returns the reference unchanged; the tool is
\* not ended by it (a finished run has sent its upstream request, unless
\* another reference made the resolution raise), and the upstream request
\* carries the reference at that position.
\* ------------------------------------------------------------------------
C16_FetchFailureFallsBackAndProceeds ==
    \A r \in Runs : \A i \in 1..Len(resolves[r]) :
        LET e == resolves[r][i] IN
        ~IdPrefixed(e.reference) /\ e.requested /\ e.http.fault # "none" =>
            /\ e.resolved = Returned(e.reference)
            /\ Finished(r) =>
                  \/ Issued(r, UpstreamOp(r))
                  \/ \E j \in 1..Len(resolves[r]) :
                        j # i /\ resolves[r][j].resolved.kind = "raised"
            /\ \A k \in 1..Len(calls[r]) :
                  calls[r][k].req.op = UpstreamOp(r) =>
                      Carried(r, calls[r][k].req, i) = e.reference

\* add_to_cart has sent AddToCart with the name Apple, after the fetch of
\* the catalog failed
C16_Witness ==
    \E r \in Runs :
        /\ Issued(r, "AddToCart")
        /\ resolves[r][1].reference = "Apple"
        /\ resolves[r][1].http.fault # "none"
        /\ resolved_items[r][1].product_id = "Apple"

\* ------------------------------------------------------------------------
\* C17: for a reference that is not id-prefixed and a fetched catalog,
\* resolve_product_id returns the id of the first item, in the order of the
\* response, whose name equals the reference ignoring case, and the
\* reference when no name matches; the result is the reference or the id of
\* an item whose name matches.
\* ------------------------------------------------------------------------
\* every item has a name and an itemId
WellFormed(items) ==
    \A i \in 1..Len(items) :
        items[i].name \notin {Absent, PyNone} /\ items[i].itemId \notin {Absent, PyNone}

\* the request was answered with a catalog
Fetched(e) ==
    /\ e.requested
    /\ e.http.fault = "none"
    /\ e.http.body.kind = "object"
    /\ e.http.body.items_json # "null"
    /\ WellFormed(e.http.body.items)

\* the positions of the items whose name is the reference, ignoring case
Matching(items, ref) == {i \in 1..Len(items) : lower(items[i].name) = lower(ref)}

First(positions) == CHOOSE i \in positions : \A j \in positions : i <= j

C17_FirstNameMatchOrReference ==
    \A r \in Runs : \A i \in 1..Len(resolves[r]) :
        LET e == resolves[r][i]
            items == e.http.body.items
            m == Matching(items, e.reference)
        IN  ~IdPrefixed(e.reference) /\ Fetched(e) =>
                /\ e.resolved.kind = "returned"
                /\ m = {} => e.resolved.value = e.reference
                /\ m # {} => e.resolved.value = items[First(m)].itemId
                /\ e.resolved.value \in {e.reference} \cup {items[j].itemId : j \in m}

\* Apple was resolved to the id of the item named apple, listed before the
\* item named Apple
C17_Witness ==
    \E r \in Runs : \E i \in 1..Len(resolves[r]) :
        LET e == resolves[r][i] IN
        /\ Fetched(e)
        /\ e.reference = "Apple"
        /\ Len(e.http.body.items) = 2
        /\ e.http.body.items[1].name = "apple"
        /\ e.http.body.items[2].name = "Apple"
        /\ e.resolved.value = e.http.body.items[1].itemId
        /\ e.resolved.value # e.http.body.items[2].itemId

\* ------------------------------------------------------------------------
\* C18: resolve_product_id never fails: for every reference add_to_cart or
\* update_cart_item passes and every catalog response it returns a product
\* id (not null) and raises nothing.
\* ------------------------------------------------------------------------
C18_ResolveNeverFails ==
    \A r \in Runs : \A i \in 1..Len(resolves[r]) :
        /\ resolves[r][i].resolved.kind = "returned"
        /\ resolves[r][i].resolved.value # PyNone

\* ------------------------------------------------------------------------
\* C19: AddToCart and UpdateCartItem are sent after every reference of the
\* call went through resolve_product_id, and carry the resolved ids (for
\* AddToCart one entry per input item, in input order); the other tools
\* resolve nothing, and RemoveFromCart carries the ids it was given.
\* ------------------------------------------------------------------------
C19_ResolvedBeforeSending ==
    \A r \in Runs :
        /\ \A k \in 1..Len(calls[r]) :
            LET req == calls[r][k].req
                arguments == tool_call[r].arguments
            IN  /\ req.op = "AddToCart" =>
                      /\ Len(resolves[r]) = Len(arguments.items)
                      /\ Len(req.items) = Len(arguments.items)
                      /\ \A i \in 1..Len(arguments.items) :
                            /\ resolves[r][i].reference = Get(arguments.items[i], "product_id", "")
                            /\ resolves[r][i].resolved = Returned(req.items[i].product_id)
                      /\ \A j \in 1..(k - 1) : calls[r][j].req.op = "ListItems"
                /\ req.op = "UpdateCartItem" =>
                      /\ Len(resolves[r]) = 1
                      /\ resolves[r][1].reference = arguments.product_id
                      /\ resolves[r][1].resolved = Returned(req.product_id)
                /\ req.op = "RemoveFromCart" => req.product_ids = arguments.product_ids
                /\ req.op = "ListItems" => tool[r] \in {"add_to_cart", "update_cart_item"}
        /\ tool[r] \notin {"add_to_cart", "update_cart_item"} => resolves[r] = <<>>

\* AddToCart was sent for two items, one of them a name resolved to an id
C19_Witness ==
    \E r \in Runs :
        /\ Issued(r, "AddToCart")
        /\ Len(tool_call[r].arguments.items) = 2
        /\ \E i \in 1..2 :
              resolves[r][i].resolved.value # resolves[r][i].reference

\* ------------------------------------------------------------------------
\* C20: a checkout run that executes concurrently with a run for another
\* customer issues, under every interleaving, the requests it issues when
\* it runs alone and is given the same responses, and returns the same
\* outcome.
\* ------------------------------------------------------------------------
C20_ConcurrentRunAsAlone ==
    LET n == Len(calls[Replay]) IN
    pc[Replay] # "idle" =>
        /\ n <= Len(calls[Alone])
        /\ \A i \in 1..n :
              /\ calls[Replay][i].req = calls[Alone][i].req
              /\ calls[Replay][i].result = calls[Alone][i].result
        /\ Finished(Replay) =>
              /\ n = Len(calls[Alone])
              /\ outcome[Replay] = outcome[Alone]
        /\ pc[Replay] \notin {"start", "done"} => n < Len(calls[Alone])

\* the run has returned the invoice while the run of the other customer,
\* which read another total, is between two of its requests
C20_Witness ==
    /\ Finished(Replay)
    /\ outcome[Replay].kind = "Success"
    /\ Len(calls[Replay]) = Len(Order)
    /\ pc[Other] \notin {"idle", "start", "done"}
    /\ Len(calls[Other]) > 1
    /\ customer_id[Other] # customer_id[Replay]
    /\ total_amount[Other] # total_amount[Replay]

\* ------------------------------------------------------------------------
\* C21: for a cart whose ViewCart response reports total_amount 25.0, the
\* CreateMandate request carries amount_limit exactly 27.5.
\* ------------------------------------------------------------------------
\* the double 27.5: 55 * 2^47 * 2^-48
Dbl27_5 == [m |-> <<55 * Pow2(11), 0, 0>>, e |-> -48]

\* the total of the scenario: two of i_001 at 10.0 and one of i_002 at 5.0
ScenarioTotal == 2 * UnitPrice["i_001"] + UnitPrice["i_002"]

C21_AmountLimitIs27_5 ==
    \A r \in CheckoutRuns : \A i \in 1..Len(calls[r]) :
        /\ calls[r][i].req.op = "CreateMandate"
        /\ calls[r][1].result.cart_state.total_amount = ScenarioTotal
        => calls[r][i].req.amount_limit = Dbl27_5

\* ------------------------------------------------------------------------
\* C22: add_to_cart, update_cart_item and remove_from_cart report success
\* only when the upstream call returned without error and with success
\* true; when success is false or absent the result is a failure whose text
\* is the message of the response, or "Unknown error" without a message.
\* ------------------------------------------------------------------------
\* the request by which a cart tool changes the cart
MutationOp(r) ==
    CASE tool[r] = "add_to_cart" -> "AddToCart"
      [] tool[r] = "update_cart_item" -> "UpdateCartItem"
      [] tool[r] = "remove_from_cart" -> "RemoveFromCart"
      [] OTHER -> "none"

C22_SuccessOnlyOnSuccessTrue ==
    \A r \in Runs :
        MutationOp(r) # "none" /\ Finished(r) =>
            /\ outcome[r].kind = "Success" =>
                  \E k \in 1..Len(calls[r]) :
                      /\ calls[r][k].req.op = MutationOp(r)
                      /\ ReturnedOk(calls[r][k].result)
                      /\ calls[r][k].result.success = PyTrue
            /\ \A k \in 1..Len(calls[r]) :
                  /\ calls[r][k].req.op = MutationOp(r)
                  /\ ReturnedOk(calls[r][k].result)
                  /\ calls[r][k].result.success \in {PyFalse, Absent}
                  => /\ outcome[r].kind = "Failure"
                     /\ outcome[r].reason =
                            IF calls[r][k].result.message = Absent
                            THEN "Unknown error"
                            ELSE calls[r][k].result.message

\* update_cart_item was answered without success and without message
C22_Witness ==
    \E r \in Runs :
        /\ Finished(r)
        /\ tool[r] = "update_cart_item"
        /\ Issued(r, "UpdateCartItem")
        /\ calls[r][Len(calls[r])].result.success = Absent
        /\ calls[r][Len(calls[r])].result.error = Absent
        /\ outcome[r].reason = "Unknown error"

\* ------------------------------------------------------------------------
\* C23: each payment-adapter request of a checkout run carries the ids
\* produced earlier in the run: CreateIntent the mandate_id CreateMandate
\* returned and cart_id equal to customer_id; Authorize the intent_id
\* CreateIntent returned and the same mandate_id; Execute the
\* authorization_id Authorize returned and the same intent_id.
\* ------------------------------------------------------------------------
\* request number i of the run is op and carries value under key, when the
\* result of the request before it has value
CarriesFrom(r, i, op, key) ==
    Len(calls[r]) >= i =>
        /\ calls[r][i].req.op = op
        /\ calls[r][i - 1].result.kind = "object"
        /\ calls[r][i - 1].result[key] # Absent
              => calls[r][i].req[key] = calls[r][i - 1].result[key]

C23_RequestsCarryTheIdsOfTheRun ==
    \A r \in CheckoutRuns :
        /\ CarriesFrom(r, 3, "CreateIntent", "mandate_id")
        /\ Len(calls[r]) >= 3 =>
              /\ calls[r][3].req.cart_id = customer_id[r]
              /\ calls[r][3].req.customer_id = customer_id[r]
        /\ CarriesFrom(r, 4, "Authorize", "intent_id")
        /\ Len(calls[r]) >= 4 => calls[r][4].req.mandate_id = calls[r][3].req.mandate_id
        /\ CarriesFrom(r, 5, "Execute", "authorization_id")
        /\ Len(calls[r]) >= 5 => calls[r][5].req.intent_id = calls[r][4].req.intent_id

\* Execute was sent in a run whose three ids were all returned
C23_Witness ==
    \E r \in CheckoutRuns :
        /\ Issued(r, "Execute")
        /\ calls[r][2].result.mandate_id = calls[r][4].req.mandate_id
        /\ calls[r][4].req.mandate_id \notin {Absent, PyNone}
        /\ calls[r][5].req.intent_id \notin {Absent, PyNone, ""}
        /\ calls[r][5].req.authorization_id \notin {Absent, PyNone}

\* ------------------------------------------------------------------------
\* C24: a checkout run that returns Success has issued exactly one
\* ClearCart request, for its customer_id, after its Execute call returned
\* and as its last request; a run that returns Failure has issued none.
\* ------------------------------------------------------------------------
ClearCarts(r) == {i \in 1..Len(calls[r]) : calls[r][i].req.op = "ClearCart"}

C24_OneClearCartOnSuccessOnly ==
    \A r \in CheckoutRuns :
        /\ Finished(r) /\ outcome[r].kind = "Success" =>
              /\ ClearCarts(r) = {Len(calls[r])}
              /\ calls[r][Len(calls[r])].req.customer_id = customer_id[r]
              /\ Len(calls[r]) > 1
              /\ calls[r][Len(calls[r]) - 1].req.op = "Execute"
        /\ Finished(r) /\ outcome[r].kind = "Failure" => ClearCarts(r) = {}
        /\ Cardinality(ClearCarts(r)) <= 1

\* the run has returned Success after a ClearCart that failed
C24_Witness ==
    \E r \in CheckoutRuns :
        /\ Finished(r)
        /\ outcome[r].kind = "Success"
        /\ tool[r] = "checkout_cart"
        /\ HasError(calls[r][Len(calls[r])].result)

\* ------------------------------------------------------------------------
\* C25: no checkout run sends a payment-adapter request with a null id:
\* CreateIntent never with a null mandate_id, Authorize never with a null
\* intent_id or mandate_id, Execute never with a null authorization_id or
\* intent_id.
\* ------------------------------------------------------------------------
C25_NoNullIdIsSent ==
    \A r \in CheckoutRuns : \A i \in 1..Len(calls[r]) :
        LET req == calls[r][i].req IN
        /\ req.op = "CreateIntent" => req.mandate_id # PyNone
        /\ req.op = "Authorize" => req.intent_id # PyNone /\ req.mandate_id # PyNone
        /\ req.op = "Execute" => req.authorization_id # PyNone /\ req.intent_id # PyNone

\* ------------------------------------------------------------------------
\* C26: for one customer, under any interleaving of a checkout run with
\* add_to_cart calls, every item the run's ClearCart removes from the cart
\* was part of the cart snapshot the run read at its start.
\* ------------------------------------------------------------------------
\* the quantity of product p in the cart the run's ViewCart returned
SnapshotQuantity(r, p) ==
    LET items == ViewedItems(r)
        at == {i \in 1..Len(items) : items[i].product_id = p}
    IN  IF at = {} THEN 0 ELSE items[CHOOSE i \in at : TRUE].quantity

\* this step is the ClearCart of run r, and it empties the cart
ClearsTheCart(r) ==
    /\ Len(calls'[r]) = Len(calls[r]) + 1
    /\ calls'[r][Len(calls'[r])].req.op = "ClearCart"
    /\ cart'[customer_id[r]] # cart[customer_id[r]]

C26_ClearedItemsWereInTheSnapshot ==
    [][\A r \in CheckoutRuns :
          ClearsTheCart(r) =>
              \A p \in Products : cart[customer_id[r]][p] <= SnapshotQuantity(r, p)]_vars

\* ------------------------------------------------------------------------
\* C27: for one customer, under any interleaving of two checkout runs
\* started on the same non-empty cart, at most one of the runs issues
\* Execute and returns Success for that cart content.
\* ------------------------------------------------------------------------
\* the run was paid: Execute was issued and the run returned Success, its
\* ClearCart having returned without error
Paid(r) ==
    /\ Finished(r)
    /\ outcome[r].kind = "Success"
    /\ Issued(r, "Execute")
    /\ ReturnedOk(calls[r][Len(calls[r])].result)

C27_CartIsPaidOnce ==
    \A r \in TwinRuns : \A q \in TwinRuns \ {r} :
        Paid(r) /\ Paid(q) /\ SawItems(r) /\ SawItems(q)
            => ViewedItems(r) # ViewedItems(q)

\* ------------------------------------------------------------------------
\* C29: whenever the result of a checkout run states that the customer's
\* cart has been cleared, the ClearCart call of that run returned without
\* error.
\* ------------------------------------------------------------------------
C29_ClearedTextOnlyAfterClearCartOk ==
    \A r \in CheckoutRuns :
        Finished(r) /\ StatesCartCleared(outcome[r])
            => \E i \in 1..Len(calls[r]) :
                   /\ calls[r][i].req.op = "ClearCart"
                   /\ ReturnedOk(calls[r][i].result)

\* ------------------------------------------------------------------------
\* C28: for every sequence of responses from the cart service and the
\* payment adapter, the checkout tool and the checkout_cart tool issue the
\* same sequence of remote requests and end in the same outcome kind
\* (Success, or Failure at the same stage).
\* ------------------------------------------------------------------------
Requests(r) == [i \in 1..Len(calls[r]) |-> calls[r][i].req]

C28_BothToolsAgree ==
    Finished("first") /\ Finished("second") =>
        /\ Requests("second") = Requests("first")
        /\ outcome["second"].kind = outcome["first"].kind
        /\ outcome["second"].stage = outcome["first"].stage

\* ------------------------------------------------------------------------
\* C30: update_cart_item sends UpdateCartItem only after its preceding
\* ViewCart succeeded, and resolves the product reference against the
\* merchant_id that ViewCart returned for the customer's cart; when ViewCart
\* fails or returns no merchant_id, it sends no UpdateCartItem.
\* ------------------------------------------------------------------------
\* the merchant_id the ViewCart of run r returned, Absent when it failed or
\* returned none
ViewedMerchant(r) ==
    IF /\ Len(calls[r]) > 0
       /\ calls[r][1].req.op = "ViewCart"
       /\ ReturnedOk(calls[r][1].result)
       /\ calls[r][1].result.cart_state.json = "object"
    THEN calls[r][1].result.cart_state.merchant_id
    ELSE Absent

C30_UpdateOnlyForTheMerchantOfTheCart ==
    \A r \in Runs :
        tool[r] = "update_cart_item" =>
            /\ \A i \in 1..Len(resolves[r]) :
                   resolves[r][i].merchant_id = ViewedMerchant(r)
            /\ Issued(r, "UpdateCartItem") => ViewedMerchant(r) # Absent

\* ------------------------------------------------------------------------
\* C31: every checkout run terminates: provided each remote call returns (a
\* payload or an error), the run reaches a terminal outcome after at most
\* six remote requests (ViewCart, CreateMandate, CreateIntent, Authorize,
\* Execute, ClearCart), with no retry and no loop.
\* ------------------------------------------------------------------------
\* at most six requests, each operation at most once and in the order of the
\* protocol
NoRetry(r) ==
    /\ Len(calls[r]) <= Len(Order)
    /\ \A i \in 1..Len(calls[r]) : calls[r][i].req.op = Order[i]

C31_CheckoutTerminates ==
    /\ [](\A r \in Runs : NoRetry(r))
    /\ \A r \in Runs : (pc[r] = "start") ~> (Finished(r) /\ outcome[r] # Pending)

\* a run has returned after all six requests
C31_Witness ==
    \E r \in Runs :
        /\ Finished(r)
        /\ Len(calls[r]) = Len(Order)
        /\ calls[r][Len(Order)].req.op = "ClearCart"

\* ------------------------------------------------------------------------
\* C32: in every chat turn, for each tool call in an assistant message
\* exactly one tool-role message with that call's tool_call_id is appended
\* to the message history, in call order and before the next model request,
\* whether the tool succeeds, raises, is unknown, or has undecodable
\* arguments; and the turn ends exactly when an assistant message has no
\* tool calls.
\* ------------------------------------------------------------------------
Assistants == {i \in 1..Len(messages) : messages[i].role = "assistant"}

\* the tool calls of the assistant message at i are answered, in call order,
\* by the messages that follow it, as far as the history goes
AnsweredInOrder(i) ==
    \A k \in 1..Len(messages[i].tool_calls) :
        i + k <= Len(messages) =>
            /\ messages[i + k].role = "tool"
            /\ messages[i + k].tool_call_id = messages[i].tool_calls[k].id

\* each tool call of the assistant message at i has exactly one tool message
\* with its id among the messages up to the next assistant message
AnsweredOnce(i) ==
    LET upto == IF \E j \in Assistants : j > i
                THEN (CHOOSE j \in Assistants : j > i /\ \A h \in Assistants : h > i => j <= h) - 1
                ELSE Len(messages)
    IN  \A k \in 1..Len(messages[i].tool_calls) :
            Cardinality({j \in (i + 1)..upto :
                /\ messages[j].role = "tool"
                /\ messages[j].tool_call_id = messages[i].tool_calls[k].id}) = 1

\* the last tool call of the assistant message at i has been executed
LoopDone(i) == (\E j \in Assistants : j > i) \/ turn # "tools"

ToolCallsAnswered ==
    \A i \in Assistants :
        /\ AnsweredInOrder(i)
        /\ LoopDone(i) => AnsweredOnce(i)

TurnEnded == turn \in {"returned", "raised"}

C32_EveryToolCallAnsweredTurnEndsOnPlainReply ==
    /\ ToolCallsAnswered
    /\ TurnEnded <=>
          /\ messages[Len(messages)].role = "assistant"
          /\ messages[Len(messages)].tool_calls = <<>>

\* C32 as amended: the tool calls are answered as stated, the turn returns
\* exactly when an assistant message has no tool calls, and a model request
\* that raises ends the turn with the exception, every tool call of the
\* earlier assistant messages having been answered.
C32_EveryToolCallAnsweredTurnReturnsOnPlainReply ==
    /\ ToolCallsAnswered
    /\ turn = "returned" <=>
          /\ messages[Len(messages)].role = "assistant"
          /\ messages[Len(messages)].tool_calls = <<>>
    /\ turn = "raised" =>
          /\ messages[Len(messages)].role \in {"user", "tool"}
          /\ \A i \in Assistants : AnsweredOnce(i)

\* the turn has returned after an assistant message with two tool calls, of
\* which the first failed and the second succeeded, was answered
C32_Witness ==
    /\ turn = "returned"
    /\ \E i \in Assistants :
          /\ Len(messages[i].tool_calls) = 2
          /\ messages[i + 1].tool_call_id = "call_1"
          /\ messages[i + 1].content = "Failed to decode tool arguments"
          /\ messages[i + 2].tool_call_id = "call_2"
          /\ messages[i + 2].content = "result"
          /\ messages[i + 3].role = "assistant"

====
